---------------------------- MODULE Spec2Model ----------------------------
(***************************************************************************)
(* Camouflage: the multi-format parsing and position-resolution engine.    *)
(*                                                                         *)
(* Texts are sequences of one-character strings.  Offsets are the 0-based  *)
(* offsets of the TypeScript source: the character at offset p of a text t *)
(* is t[p + 1].                                                            *)
(***************************************************************************)
EXTENDS Integers, Sequences, FiniteSets, TLC

VARIABLES
    parser,          \* the kind of the parser instance ("none": a registry)
    pc,              \* "idle" | "returned" | "threw"
    content,         \* the text handed to the last parse call
    result,          \* the list that call returned
    options,         \* BaseParser.options of the instance
    currentSection,  \* PropertiesParser.currentSection of the instance
    lastIndex,       \* lastIndex of EnvParser's two global regexes
    enabledParsers,  \* ParserRegistry.enabledParsers, in insertion order
    lastTypes,       \* the argument of the last setEnabledParsers call
    fileName,        \* the argument of the last findParserForFile call
    found,           \* what that call returned ("undefined" when none)
    calls,           \* history: the parse calls made on an instance with fields
    entry,           \* history: currentSection as the last call found it
    cache,           \* PatternMatcher.cache: the compiled regex of each cached pattern
    testedKey,       \* the key handed to the last pattern matcher call
    patterns,        \* the patterns handed to that call
    matched,         \* what that call returned
    op,              \* which function that call was ("none" before any)
    config,          \* the selective hiding settings the overlay reads
    located,         \* the variables handed to processParserResults
    decorations,     \* the decorations it pushed
    parserOptions,   \* the options of each parser a ParserRegistry holds
    log,             \* history: the setOptions calls made, oldest first
    yamlKeyStack,    \* keyStack of the YamlParser.parse call in progress
    yamlLineIndex,   \* lineIndex of its loop: the lines it has gone through
    yamlCurrentIndex, \* currentIndex of its loop: the offset of the next line
    wait,            \* the wait of the Debounce decorator, in milliseconds
    now,             \* the clock, in milliseconds
    timeout,         \* the timer the closure of the decorator holds
    trace,           \* history: the calls and the runs of the method, oldest first
    hashedPassword,  \* PasswordManager.hashedPassword ("undefined" when not set)
    password,        \* PasswordManager.password, the remembered one
    lastVerified,    \* PasswordManager.lastVerified, a time of the clock
    attempts,        \* PasswordManager.attempts
    locked,          \* PasswordManager.locked
    security,        \* the security settings the manager reads
    waiting,         \* the call of the manager that awaits its input box
    wrong,           \* history: wrong entries since the last correct one
    outcome          \* history: what the last verifyPassword call returned

parserVars == <<parser, content, result, options, currentSection, lastIndex,
                calls, entry>>
registryVars == <<enabledParsers, lastTypes, fileName, found>>
matcherVars == <<cache, testedKey, patterns, matched, op>>
overlayVars == <<config, located, decorations>>
optionVars == <<parserOptions, log>>
yamlVars == <<yamlKeyStack, yamlLineIndex, yamlCurrentIndex>>
timerVars == <<wait, now, timeout, trace>>
passwordVars == <<hashedPassword, password, lastVerified, attempts, locked, security,
                  waiting, wrong, outcome>>
componentVars == <<yamlVars, timerVars, passwordVars>>

vars == <<parser, pc, content, result, options, currentSection, lastIndex,
          enabledParsers, lastTypes, fileName, found, calls, entry,
          matcherVars, overlayVars, optionVars, componentVars>>

-----------------------------------------------------------------------------
(* Bounds of the model.                                                    *)

MaxEnvFrags == 3
MaxPropFrags == 3
MaxTomlFrags == 3
MaxYamlLines == 2
MaxJsonNesting == 1
MaxJsonMembers == 1
MaxIndent == 1
MaxCalls == 2
MaxNameFrags == 2
MaxTypes == 2
MaxDepthOption == 1
MaxJsonPieces == 3
MaxGlobLen == 3
MaxKeyLen == 2
MaxPatterns == 2
MaxListKeyLen == 2
MaxSetOptions == 2
MaxConfigPatterns == 1
MaxVars == 2
MaxTomlLines == 3
MaxWait == 2
MaxTime == 5
MaxEvents == 4
MaxAttemptsSetting == 2
MaxSeconds == 2

-----------------------------------------------------------------------------
(* Characters.                                                             *)

Lower == {"a","b","c","d","e","f","g","h","i","j","k","l","m",
          "n","o","p","q","r","s","t","u","v","w","x","y","z"}
Upper == {"A","B","C","D","E","F","G","H","I","J","K","L","M",
          "N","O","P","Q","R","S","T","U","V","W","X","Y","Z"}
Digit == {"0","1","2","3","4","5","6","7","8","9"}
\* \s of a JavaScript regex, and what trim() strips
Space == {" ", "\t", "\n", "\r", "\f"}
\* what "." does not match and what "$" stops at
LineTerminator == {"\n", "\r"}

LowerOf(c) ==
    CASE c = "A" -> "a" [] c = "B" -> "b" [] c = "C" -> "c" [] c = "D" -> "d"
      [] c = "E" -> "e" [] c = "F" -> "f" [] c = "G" -> "g" [] c = "H" -> "h"
      [] c = "I" -> "i" [] c = "J" -> "j" [] c = "K" -> "k" [] c = "L" -> "l"
      [] c = "M" -> "m" [] c = "N" -> "n" [] c = "O" -> "o" [] c = "P" -> "p"
      [] c = "Q" -> "q" [] c = "R" -> "r" [] c = "S" -> "s" [] c = "T" -> "t"
      [] c = "U" -> "u" [] c = "V" -> "v" [] c = "W" -> "w" [] c = "X" -> "x"
      [] c = "Y" -> "y" [] c = "Z" -> "z" [] OTHER -> c

-----------------------------------------------------------------------------
(* String methods of JavaScript, on texts.                                 *)

Min(S) == CHOOSE x \in S : \A y \in S : x <= y
Max(S) == CHOOSE x \in S : \A y \in S : x >= y

Clamp(x, n) == IF x < 0 THEN 0 ELSE IF x > n THEN n ELSE x

\* t.substring(a, b): both ends clamped to 0..length, swapped when a > b
Substring(t, a, b) ==
    LET x == Clamp(a, Len(t))
        y == Clamp(b, Len(t))
    IN  IF x = y THEN <<>>
        ELSE IF x < y THEN SubSeq(t, x + 1, y) ELSE SubSeq(t, y + 1, x)

\* t.slice(a, b): a negative end counts from the end of t, no swap
Slice(t, a, b) ==
    LET x == IF a < 0 THEN Clamp(Len(t) + a, Len(t)) ELSE Clamp(a, Len(t))
        y == IF b < 0 THEN Clamp(Len(t) + b, Len(t)) ELSE Clamp(b, Len(t))
    IN  IF x >= y THEN <<>> ELSE SubSeq(t, x + 1, y)

\* t.substring(a)
From(t, a) == Substring(t, a, Len(t))

\* t.indexOf(s, from): the first offset >= from where s occurs, or -1
RECURSIVE IndexOf(_, _, _)
IndexOf(t, s, from) ==
    IF from < 0 THEN IndexOf(t, s, 0)
    ELSE IF from + Len(s) > Len(t) THEN -1
    ELSE IF SubSeq(t, from + 1, from + Len(s)) = s THEN from
    ELSE IndexOf(t, s, from + 1)

StartsWith(t, s) == Len(s) <= Len(t) /\ SubSeq(t, 1, Len(s)) = s
EndsWith(t, s) == Len(s) <= Len(t) /\ SubSeq(t, Len(t) - Len(s) + 1, Len(t)) = s
Includes(t, s) == IndexOf(t, s, 0) # -1

\* the number of leading / trailing characters trim() strips
RECURSIVE SpaceFrom(_, _), SpaceBefore(_, _)
SpaceFrom(t, p) ==
    IF p <= Len(t) /\ t[p] \in Space THEN 1 + SpaceFrom(t, p + 1) ELSE 0
SpaceBefore(t, p) ==
    IF p >= 1 /\ t[p] \in Space THEN 1 + SpaceBefore(t, p - 1) ELSE 0
LeadingSpace(t) == SpaceFrom(t, 1)
TrailingSpace(t) == SpaceBefore(t, Len(t))

TrimStart(t) == From(t, LeadingSpace(t))
Trim(t) ==
    IF LeadingSpace(t) = Len(t) THEN <<>>
    ELSE SubSeq(t, LeadingSpace(t) + 1, Len(t) - TrailingSpace(t))

ToLowerCase(t) == [p \in 1..Len(t) |-> LowerOf(t[p])]

\* t.split(sep) for a one-character separator: the pieces between separators
RECURSIVE SplitFrom(_, _, _)
SplitFrom(t, sep, from) ==
    LET p == IndexOf(t, <<sep>>, from)
    IN  IF p = -1 THEN <<From(t, from)>>
        ELSE <<Substring(t, from, p)>> \o SplitFrom(t, sep, p + 1)
Split(t, sep) == SplitFrom(t, sep, 0)

Last(s) == s[Len(s)]

RECURSIVE Concat(_)
Concat(ss) == IF ss = <<>> THEN <<>> ELSE Head(ss) \o Concat(Tail(ss))

\* all sequences over S of length at most n
RECURSIVE SeqsUpTo(_, _)
SeqsUpTo(S, n) ==
    IF n = 0 THEN {<<>>}
    ELSE LET R == SeqsUpTo(S, n - 1)
         IN  R \cup {Append(r, x) : r \in {q \in R : Len(q) = n - 1}, x \in S}


-----------------------------------------------------------------------------
(* Regular expressions.  A regex is a sequence of nodes; Match finds what  *)
(* the backtracking matcher of JavaScript finds: quantifiers are greedy,   *)
(* alternatives are tried left to right, and the first success is kept.    *)

Node(t, cs, neg, min, n, sub) ==
    [t |-> t, cs |-> cs, neg |-> neg, min |-> min, n |-> n, sub |-> sub]
Cls(cs) == Node("cls", cs, FALSE, 0, 0, <<>>)        \* [cs]
NotCls(cs) == Node("cls", cs, TRUE, 0, 0, <<>>)      \* [^cs]
Star(c) == Node("rep", c.cs, c.neg, 0, 0, <<>>)      \* c*
Plus(c) == Node("rep", c.cs, c.neg, 1, 0, <<>>)      \* c+
Opt(seq) == Node("alt", {}, FALSE, 0, 0, <<seq, <<>> >>)  \* (?:seq)?
Alt(seqs) == Node("alt", {}, FALSE, 0, 0, seqs)      \* (?:a|b|c)
Bol(m) == Node("bol", {}, FALSE, 0, m, <<>>)         \* ^ (m = 1: flag m)
Eol(m) == Node("eol", {}, FALSE, 0, m, <<>>)         \* $ (m = 1: flag m)
Open(n) == Node("open", {}, FALSE, 0, n, <<>>)       \* ( of group n
Close(n) == Node("close", {}, FALSE, 0, n, <<>>)     \* ) of group n
Lit(s) == [p \in 1..Len(s) |-> Cls({s[p]})]          \* the characters of s
AnyS == Cls(Space)                                   \* \s
Dot == NotCls(LineTerminator)                        \* .

InClass(c, h) == (c \in h.cs) # h.neg

NoCaps == [g \in 1..2 |-> <<-1, -1>>]
Fail == [ok |-> FALSE, index |-> -1, end |-> -1, caps |-> NoCaps]

\* how many characters from offset i on are in the class of h
RECURSIVE Run(_, _, _)
Run(t, h, i) ==
    IF i < Len(t) /\ InClass(t[i + 1], h) THEN 1 + Run(t, h, i + 1) ELSE 0

RECURSIVE Match(_, _, _, _), TryRep(_, _, _, _, _, _), TryAlt(_, _, _, _, _, _)
Match(t, rs, i, caps) ==
    IF rs = <<>> THEN [ok |-> TRUE, index |-> -1, end |-> i, caps |-> caps]
    ELSE LET h == Head(rs)
             r == Tail(rs)
         IN  CASE h.t = "cls" ->
                    IF i < Len(t) /\ InClass(t[i + 1], h)
                    THEN Match(t, r, i + 1, caps) ELSE Fail
               [] h.t = "rep" -> TryRep(t, h, r, i, Run(t, h, i), caps)
               [] h.t = "alt" -> TryAlt(t, h.sub, r, i, caps, 1)
               [] h.t = "bol" ->
                    IF i = 0 \/ (h.n = 1 /\ t[i] \in LineTerminator)
                    THEN Match(t, r, i, caps) ELSE Fail
               [] h.t = "eol" ->
                    IF i = Len(t) \/ (h.n = 1 /\ t[i + 1] \in LineTerminator)
                    THEN Match(t, r, i, caps) ELSE Fail
               [] h.t = "open" ->
                    Match(t, r, i, [caps EXCEPT ![h.n] = <<i, -1>>])
               [] h.t = "close" ->
                    Match(t, r, i, [caps EXCEPT ![h.n] = <<caps[h.n][1], i>>])

\* a greedy quantifier: the longest run first, then one character less
TryRep(t, h, r, i, k, caps) ==
    IF k < h.min THEN Fail
    ELSE LET a == Match(t, r, i + k, caps)
         IN  IF a.ok THEN a ELSE TryRep(t, h, r, i, k - 1, caps)

TryAlt(t, subs, r, i, caps, j) ==
    IF j > Len(subs) THEN Fail
    ELSE LET a == Match(t, subs[j] \o r, i, caps)
         IN  IF a.ok THEN a ELSE TryAlt(t, subs, r, i, caps, j + 1)

\* regex.exec(t) with regex.lastIndex = from: the first offset that matches
RECURSIVE Exec(_, _, _)
Exec(t, re, from) ==
    IF from > Len(t) THEN Fail
    ELSE LET a == Match(t, re, from, NoCaps)
         IN  IF a.ok THEN [a EXCEPT !.index = from] ELSE Exec(t, re, from + 1)

\* match[n] and match[0]
Group(t, m, n) == Substring(t, m.caps[n][1], m.caps[n][2])
Whole(t, m) == Substring(t, m.index, m.end)

-----------------------------------------------------------------------------
(* BaseParser.                                                             *)

DEFAULT_MAX_NESTED_DEPTH == 10
DEFAULT_PARSER_OPTIONS ==
    [maxNestedDepth |-> DEFAULT_MAX_NESTED_DEPTH, includeCommented |-> TRUE]

\* { ...base, ...partial }: partial is a function from some of the fields
Spread(base, partial) ==
    [f \in DOMAIN base \cup DOMAIN partial |->
        IF f \in DOMAIN partial THEN partial[f] ELSE base[f]]

\* the partial of a call that gives no field
NoOptions == [f \in {} |-> 0]

\* constructor(options = {}): this.options = { ...DEFAULT_PARSER_OPTIONS, ...options }
BaseConstructor(partial) == Spread(DEFAULT_PARSER_OPTIONS, partial)

\* the fields that are not given fall back to the defaults
SetOptionsOverDefaults(opts, partial) == Spread(DEFAULT_PARSER_OPTIONS, partial)

\* setOptions(options): this.options = { ...this.options, ...options }
SetOptions(opts, partial) == Spread(opts, partial)

\* content.substring(0, index).split('\n').length - 1
GetLineNumber(c, index) == Len(Split(Substring(c, 0, index), "\n")) - 1

CreateVariable(key, value, startIndex, endIndex, c, isNested, isCommented) ==
    [key |-> key, value |-> value, startIndex |-> startIndex,
     endIndex |-> endIndex, lineNumber |-> GetLineNumber(c, startIndex),
     isNested |-> isNested, isCommented |-> isCommented]

-----------------------------------------------------------------------------
(* EnvParser.                                                              *)

IdStart == Cls(Lower \cup Upper \cup {"_"})
IdChar == Cls(Lower \cup Upper \cup Digit \cup {"_"})

\* /^\s*(?:export\s+)?([A-Za-z_][A-Za-z0-9_]*)\s*=\s*(.*)$/gm
EnvAssignment ==
    <<Opt(Lit(<<"e","x","p","o","r","t">>) \o <<Plus(AnyS)>>),
      Open(1), IdStart, Star(IdChar), Close(1),
      Star(AnyS), Cls({"="}), Star(AnyS), Open(2), Star(Dot), Close(2), Eol(1)>>
ENV_VAR_REGEX == <<Bol(1), Star(AnyS)>> \o EnvAssignment

\* /^\s*#\s*(?:export\s+)?([A-Za-z_][A-Za-z0-9_]*)\s*=\s*(.*)$/gm
COMMENTED_ENV_VAR_REGEX ==
    <<Bol(1), Star(AnyS), Cls({"#"}), Star(AnyS)>> \o EnvAssignment

\* the variable of one match, or nothing when its value is blank
EnvVariable(c, m, isCommented) ==
    LET key == Group(c, m, 1)
        value == Group(c, m, 2)
        fullMatch == Whole(c, m)
        matchStart == m.index
        equalsIndex == IndexOf(fullMatch, <<"=">>, 0)
        valueStartIndex == matchStart + equalsIndex + 1
        valueEndIndex == matchStart + Len(fullMatch)
    IN  IF Trim(value) # <<>>
        THEN <<CreateVariable(key, value, valueStartIndex, valueEndIndex, c,
                              FALSE, isCommented)>>
        ELSE <<>>

\* the exec loop from regex.lastIndex = from; the exec that finds nothing
\* leaves lastIndex = 0
RECURSIVE EnvLoop(_, _, _, _, _)
EnvLoop(c, regex, variables, isCommented, from) ==
    LET m == Exec(c, regex, from)
    IN  IF ~m.ok THEN [variables |-> variables, lastIndex |-> 0]
        ELSE EnvLoop(c, regex, variables \o EnvVariable(c, m, isCommented),
                     isCommented, m.end)

\* only the first match is taken and lastIndex is neither reset before the
\* search nor run to the end
EnvParseWithRegexOnce(c, regex, variables, isCommented, li) ==
    LET m == Exec(c, regex, li)
    IN  IF ~m.ok THEN [variables |-> variables, lastIndex |-> 0]
        ELSE [variables |-> variables \o EnvVariable(c, m, isCommented),
              lastIndex |-> m.end]

\* parseWithRegex on a regex whose lastIndex is li
EnvParseWithRegex(c, regex, variables, isCommented, li) ==
    EnvLoop(c, regex, variables, isCommented, 0)

\* parse: the variables, and the lastIndex the two regexes are left with
EnvParse(c, opts, li) ==
    LET a == EnvParseWithRegex(c, ENV_VAR_REGEX, <<>>, FALSE, li.plain)
        b == EnvParseWithRegex(c, COMMENTED_ENV_VAR_REGEX, a.variables, TRUE,
                               li.commented)
    IN  IF opts.includeCommented
        THEN [variables |-> b.variables,
              lastIndex |-> [plain |-> a.lastIndex, commented |-> b.lastIndex]]
        ELSE [variables |-> a.variables,
              lastIndex |-> [plain |-> a.lastIndex, commented |-> li.commented]]


-----------------------------------------------------------------------------
(* PropertiesParser.                                                       *)

KeyStart == Cls(Lower \cup Upper \cup {"_"})
KeyChar == Cls(Lower \cup Upper \cup Digit \cup {"_", ".", "-"})

\* /^\[([^\]]+)\]$/
SECTION_REGEX ==
    <<Bol(0), Cls({"["}), Open(1), Plus(NotCls({"]"})), Close(1), Cls({"]"}), Eol(0)>>

\* /^\s*[#;]\s*([a-zA-Z_][a-zA-Z0-9_.-]*)\s*[=:]\s*(.+)$/
COMMENTED_PROPERTY_REGEX ==
    <<Bol(0), Star(AnyS), Cls({"#", ";"}), Star(AnyS),
      Open(1), KeyStart, Star(KeyChar), Close(1),
      Star(AnyS), Cls({"=", ":"}), Star(AnyS), Open(2), Plus(Dot), Close(2), Eol(0)>>

\* /^([a-zA-Z_][a-zA-Z0-9_.-]*)\s*[=:]\s*(.*)$/
PROPERTY_REGEX ==
    <<Bol(0), Open(1), KeyStart, Star(KeyChar), Close(1),
      Star(AnyS), Cls({"=", ":"}), Star(AnyS), Open(2), Star(Dot), Close(2), Eol(0)>>

\* buildKey with this.currentSection = section
PropBuildKey(section, key) ==
    IF section # <<>> THEN section \o <<".">> \o key ELSE key

\* without the reset, the section the earlier call left would be kept
PropKeptSection(cur) == cur
\* this.currentSection = '' at the top of parse
PropInitialSection(cur) == <<>>

\* a comment or blank line at offset currentIndex: the commented property
PropCommented(c, line, currentIndex, section, opts) ==
    LET m == Exec(line, COMMENTED_PROPERTY_REGEX, 0)
        key == PropBuildKey(section, Group(line, m, 1))
        value == Trim(Group(line, m, 2))
        valueStartIndex == currentIndex + IndexOf(line, Group(line, m, 2), 0)
        valueEndIndex == valueStartIndex + Len(Group(line, m, 2))
    IN  IF opts.includeCommented /\ m.ok
        THEN <<CreateVariable(key, value, valueStartIndex, valueEndIndex, c,
                              FALSE, TRUE)>>
        ELSE <<>>

\* a regular line at offset currentIndex: the property, unless its value is empty
PropRegular(c, line, currentIndex, section) ==
    LET trimmedLine == Trim(line)
        m == Exec(trimmedLine, PROPERTY_REGEX, 0)
        key == PropBuildKey(section, Group(trimmedLine, m, 1))
        value == Trim(Group(trimmedLine, m, 2))
        separatorIndex == Exec(line, <<Cls({"=", ":"})>>, 0).index
        valueStartIndex == currentIndex + separatorIndex + 1
        valueInLine == From(line, separatorIndex + 1)
        valueOffset == Len(valueInLine) - Len(TrimStart(valueInLine))
        actualValueStart == valueStartIndex + valueOffset
        valueEndIndex == currentIndex + Len(line)
    IN  IF m.ok /\ value # <<>>
        THEN <<CreateVariable(key, value, actualValueStart, valueEndIndex, c,
                              FALSE, FALSE)>>
        ELSE <<>>

\* the loop over the lines, from line k at offset currentIndex
RECURSIVE PropLines(_, _, _, _, _, _, _)
PropLines(c, lines, k, currentIndex, section, variables, opts) ==
    IF k > Len(lines) THEN [variables |-> variables, currentSection |-> section]
    ELSE LET line == lines[k]
             trimmedLine == Trim(line)
             sectionMatch == Exec(trimmedLine, SECTION_REGEX, 0)
             next == currentIndex + Len(line) + 1
         IN  IF sectionMatch.ok
             THEN PropLines(c, lines, k + 1, next,
                            Group(trimmedLine, sectionMatch, 1), variables, opts)
             ELSE IF \/ trimmedLine = <<>>
                     \/ trimmedLine[1] \in {"#", ";"}
                     \/ StartsWith(trimmedLine, <<"/", "/">>)
             THEN PropLines(c, lines, k + 1, next, section,
                            variables \o PropCommented(c, line, currentIndex, section, opts),
                            opts)
             ELSE PropLines(c, lines, k + 1, next, section,
                            variables \o PropRegular(c, line, currentIndex, section),
                            opts)

\* parse on an instance whose currentSection is cur: the variables, and the
\* currentSection the instance is left with
PropertiesParse(c, opts, cur) ==
    PropLines(c, Split(c, "\n"), 1, 0, PropInitialSection(cur), <<>>, opts)

-----------------------------------------------------------------------------
(* JSON.parse and Object.entries.  A decoded value is a record: k is       *)
(* "str", "other" (a number, true, false, null), "obj" or "arr"; s is the  *)
(* text of a string; items are the own properties [key, val] of an object  *)
(* or an array, in creation order.                                         *)

JsonWs == {" ", "\t", "\n", "\r"}
Control == {"\t", "\n", "\r", "\f"}
JsonFail == [ok |-> FALSE, v |-> [k |-> "other", s |-> <<>>, items |-> <<>>], end |-> -1]
JsonOk(v, end) == [ok |-> TRUE, v |-> v, end |-> end]
JsonStr(s) == [k |-> "str", s |-> s, items |-> <<>>]
JsonOther == [k |-> "other", s |-> <<>>, items |-> <<>>]
JsonObj(items) == [k |-> "obj", s |-> <<>>, items |-> items]
JsonArr(items) == [k |-> "arr", s |-> <<>>, items |-> items]

CharAt(c, i) == IF i >= 0 /\ i < Len(c) THEN c[i + 1] ELSE "EOF"

RECURSIVE SkipWs(_, _)
SkipWs(c, i) == IF CharAt(c, i) \in JsonWs THEN SkipWs(c, i + 1) ELSE i

\* -?(0|[1-9][0-9]*)(\.[0-9]+)?([eE][+-]?[0-9]+)?
JSON_NUMBER ==
    <<Opt(<<Cls({"-"})>>),
      Alt(<< <<Cls({"0"})>>, <<Cls(Digit \ {"0"}), Star(Cls(Digit))>> >>),
      Opt(<<Cls({"."}), Plus(Cls(Digit))>>),
      Opt(<<Cls({"e", "E"}), Opt(<<Cls({"+", "-"})>>), Plus(Cls(Digit))>>)>>

\* a string token at offset i; an escape (a backslash) is not decoded: the
\* texts of the model hold none
JsonString(c, i) ==
    LET n == Run(c, NotCls({"\"", "\\"} \cup Control), i + 1)
    IN  IF CharAt(c, i) = "\"" /\ CharAt(c, i + 1 + n) = "\""
        THEN JsonOk(JsonStr(Substring(c, i + 1, i + 1 + n)), i + n + 2)
        ELSE JsonFail

\* obj[key] = val: a property that exists keeps its place
PutProperty(items, key, val) ==
    IF \E j \in 1..Len(items) : items[j].key = key
    THEN [j \in 1..Len(items) |->
             IF items[j].key = key THEN [key |-> key, val |-> val] ELSE items[j]]
    ELSE Append(items, [key |-> key, val |-> val])

\* the decimal digits of a small array index
IndexKey(n) ==
    <<CASE n = 0 -> "0" [] n = 1 -> "1" [] n = 2 -> "2" [] n = 3 -> "3"
        [] n = 4 -> "4" [] n = 5 -> "5" [] n = 6 -> "6" [] n = 7 -> "7"
        [] n = 8 -> "8" [] n = 9 -> "9">>

RECURSIVE JsonValue(_, _), JsonMembers(_, _, _), JsonElements(_, _, _)
JsonValue(c, i) ==
    LET ch == CharAt(c, i)
        num == Match(c, JSON_NUMBER, i, NoCaps)
    IN  CASE ch = "{" ->
               IF CharAt(c, SkipWs(c, i + 1)) = "}"
               THEN JsonOk(JsonObj(<<>>), SkipWs(c, i + 1) + 1)
               ELSE JsonMembers(c, SkipWs(c, i + 1), <<>>)
          [] ch = "[" ->
               IF CharAt(c, SkipWs(c, i + 1)) = "]"
               THEN JsonOk(JsonArr(<<>>), SkipWs(c, i + 1) + 1)
               ELSE JsonElements(c, SkipWs(c, i + 1), <<>>)
          [] ch = "\"" -> JsonString(c, i)
          [] ch = "t" /\ Substring(c, i, i + 4) = <<"t","r","u","e">> ->
               JsonOk(JsonOther, i + 4)
          [] ch = "f" /\ Substring(c, i, i + 5) = <<"f","a","l","s","e">> ->
               JsonOk(JsonOther, i + 5)
          [] ch = "n" /\ Substring(c, i, i + 4) = <<"n","u","l","l">> ->
               JsonOk(JsonOther, i + 4)
          [] OTHER -> IF num.ok THEN JsonOk(JsonOther, num.end) ELSE JsonFail

\* the members of an object from the key at offset i on, up to its "}"
JsonMembers(c, i, items) ==
    LET key == JsonString(c, i)
        colon == SkipWs(c, key.end)
        val == JsonValue(c, SkipWs(c, colon + 1))
        after == SkipWs(c, val.end)
        put == PutProperty(items, key.v.s, val.v)
    IN  IF ~key.ok \/ CharAt(c, colon) # ":" \/ ~val.ok THEN JsonFail
        ELSE IF CharAt(c, after) = "}" THEN JsonOk(JsonObj(put), after + 1)
        ELSE IF CharAt(c, after) = "," THEN JsonMembers(c, SkipWs(c, after + 1), put)
        ELSE JsonFail

\* the elements of an array from the value at offset i on, up to its "]"
JsonElements(c, i, items) ==
    LET val == JsonValue(c, i)
        after == SkipWs(c, val.end)
        put == Append(items, [key |-> IndexKey(Len(items)), val |-> val.v])
    IN  IF ~val.ok THEN JsonFail
        ELSE IF CharAt(c, after) = "]" THEN JsonOk(JsonArr(put), after + 1)
        ELSE IF CharAt(c, after) = "," THEN JsonElements(c, SkipWs(c, after + 1), put)
        ELSE JsonFail

\* JSON.parse(c): ok is FALSE where it throws a SyntaxError
JsonDecode(c) ==
    LET val == JsonValue(c, SkipWs(c, 0))
    IN  IF val.ok /\ SkipWs(c, val.end) = Len(c) THEN val ELSE JsonFail

\* a canonical array index: "0", or digits that do not start with "0"
IsIndex(key) ==
    Match(key, <<Alt(<< <<Cls({"0"})>>, <<Cls(Digit \ {"0"}), Star(Cls(Digit))>> >>),
                 Eol(0)>>, 0, NoCaps).ok

DigitValue(d) == CHOOSE n \in 0..9 : IndexKey(n) = <<d>>
RECURSIVE IndexValue(_)
IndexValue(key) ==
    IF key = <<>> THEN 0
    ELSE 10 * IndexValue(SubSeq(key, 1, Len(key) - 1)) + DigitValue(Last(key))

\* the items in ascending order of the index their key spells
RECURSIVE SortByIndex(_)
SortByIndex(items) ==
    IF items = <<>> THEN <<>>
    ELSE LET least == CHOOSE j \in 1..Len(items) :
                         \A q \in 1..Len(items) :
                            IndexValue(items[j].key) <= IndexValue(items[q].key)
         IN  <<items[least]>> \o
             SortByIndex(SubSeq(items, 1, least - 1) \o SubSeq(items, least + 1, Len(items)))

\* Object.entries(v): the index keys in ascending order, then the other
\* keys in creation order
ObjectEntries(v) ==
    SortByIndex(SelectSeq(v.items, LAMBDA e : IsIndex(e.key))) \o
    SelectSeq(v.items, LAMBDA e : ~IsIndex(e.key))

-----------------------------------------------------------------------------
(* JsonParser.                                                             *)

Quote == Cls({"\""})

\* new RegExp(`"${escapedKey}"\\s*:\\s*"(${escapedValue})"`, 'g'): the key
\* and the value are escaped, so they match as they are written
ValuePattern(key, value) ==
    <<Quote>> \o Lit(key) \o <<Quote, Star(AnyS), Cls({":"}), Star(AnyS), Quote, Open(1)>>
    \o Lit(value) \o <<Close(1), Quote>>

\* /"([^"]+)"\s*:\s*"([^"]*)"/g
JSON_SIMPLE_REGEX ==
    <<Quote, Open(1), Plus(NotCls({"\""})), Close(1), Quote, Star(AnyS), Cls({":"}),
      Star(AnyS), Quote, Open(2), Star(NotCls({"\""})), Close(2), Quote>>

\* where the value of a match starts: after the first quote behind the
\* first colon of the match
ValueStartOf(c, m) ==
    LET colonIndex == IndexOf(Whole(c, m), <<":">>, 0)
        valueQuoteStart == IndexOf(Whole(c, m), <<"\"">>, colonIndex + 1)
    IN  m.index + valueQuoteStart + 1

\* findValuePosition: ok is FALSE where it returns null
FindValuePosition(c, key, value) ==
    LET m == Exec(c, ValuePattern(key, value), 0)
    IN  [ok |-> m.ok, startIndex |-> ValueStartOf(c, m),
         endIndex |-> ValueStartOf(c, m) + Len(value)]

\* depth > this.options.maxNestedDepth
JsonBeyondDepth(depth, opts) == depth > opts.maxNestedDepth

\* extractVariables; entries are the entries of obj that are left to visit
RECURSIVE ExtractVariables(_, _, _, _, _, _), ExtractEntries(_, _, _, _, _, _)
ExtractVariables(obj, c, keyPrefix, depth, variables, opts) ==
    IF JsonBeyondDepth(depth, opts) THEN variables
    ELSE IF obj.k \notin {"obj", "arr"} THEN variables
    ELSE ExtractEntries(ObjectEntries(obj), c, keyPrefix, depth, variables, opts)

ExtractEntries(entries, c, keyPrefix, depth, variables, opts) ==
    IF entries = <<>> THEN variables
    ELSE LET key == Head(entries).key
             value == Head(entries).val
             fullKey == IF keyPrefix # <<>> THEN keyPrefix \o <<".">> \o key ELSE key
             position == FindValuePosition(c, key, value.s)
             found1 == IF position.ok
                       THEN Append(variables,
                                   CreateVariable(fullKey, value.s, position.startIndex,
                                                  position.endIndex, c, depth > 0, FALSE))
                       ELSE variables
         IN  ExtractEntries(Tail(entries), c, keyPrefix, depth,
                            IF value.k = "str" THEN found1
                            ELSE IF value.k \in {"obj", "arr"}
                            THEN ExtractVariables(value, c, fullKey, depth + 1, variables, opts)
                            ELSE variables,
                            opts)

\* the loop stops after the first match
JsonParseWithRegexFirst(c, variables, from) ==
    LET m == Exec(c, JSON_SIMPLE_REGEX, from)
        value == Group(c, m, 2)
    IN  IF ~m.ok THEN variables
        ELSE Append(variables,
                    CreateVariable(Group(c, m, 1), value, ValueStartOf(c, m),
                                   ValueStartOf(c, m) + Len(value), c, FALSE, FALSE))

\* parseWithRegex: the exec loop from lastIndex = from
RECURSIVE JsonParseWithRegex(_, _, _)
JsonParseWithRegex(c, variables, from) ==
    LET m == Exec(c, JSON_SIMPLE_REGEX, from)
        value == Group(c, m, 2)
    IN  IF ~m.ok THEN variables
        ELSE JsonParseWithRegex(c,
                 Append(variables,
                        CreateVariable(Group(c, m, 1), value, ValueStartOf(c, m),
                                       ValueStartOf(c, m) + Len(value), c, FALSE, FALSE)),
                 m.end)

\* the SyntaxError leaves parse
JsonRethrow(c) == [threw |-> TRUE, variables |-> <<>>]
\* catch { this.parseWithRegex(content, variables) }
JsonCatch(c) == [threw |-> FALSE, variables |-> JsonParseWithRegex(c, <<>>, 0)]

JsonParse(c, opts) ==
    LET parsed == JsonDecode(c)
    IN  IF parsed.ok
        THEN [threw |-> FALSE,
              variables |-> ExtractVariables(parsed.v, c, <<>>, 0, <<>>, opts)]
        ELSE JsonCatch(c)

-----------------------------------------------------------------------------
(* YamlParser.                                                             *)

\* /^\s*#/
YAML_COMMENT_REGEX == <<Bol(0), Star(AnyS), Cls({"#"})>>
\* /^\s*#\s*/
YAML_COMMENT_PREFIX == <<Bol(0), Star(AnyS), Cls({"#"}), Star(AnyS)>>
\* /^([a-zA-Z_][a-zA-Z0-9_.-]*)\s*:\s*(.*)$/
YAML_LINE_REGEX ==
    <<Bol(0), Open(1), KeyStart, Star(KeyChar), Close(1),
      Star(AnyS), Cls({":"}), Star(AnyS), Open(2), Star(Dot), Close(2), Eol(0)>>

\* getIndentation: the leading whitespace, a tab counted as two
GetIndentation(line) ==
    LET n == LeadingSpace(line)
    IN  n + Cardinality({p \in 1..n : line[p] = "\t"})

\* one layer of matching quotes is stripped
Unquote(value) ==
    IF \/ StartsWith(value, <<"\"">>) /\ EndsWith(value, <<"\"">>)
       \/ StartsWith(value, <<"'">>) /\ EndsWith(value, <<"'">>)
    THEN Slice(value, 1, -1) ELSE value

YamlParseLine(line) ==
    LET trimmed == Trim(line)
        m == Exec(trimmed, YAML_LINE_REGEX, 0)
        raw == Trim(Group(trimmed, m, 2))
        hasValue == Len(raw) > 0
        colonIndex == IndexOf(line, <<":">>, 0)
        afterColon == From(line, colonIndex + 1)
        valueOffset == colonIndex + 1 + (Len(afterColon) - Len(TrimStart(afterColon)))
        rawValue == Trim(From(line, valueOffset))
        adjustedOffset ==
            IF StartsWith(rawValue, <<"\"">>) \/ StartsWith(rawValue, <<"'">>)
            THEN IndexOf(line, rawValue, 0) + 1
            ELSE IndexOf(line, rawValue, colonIndex)
    IN  IF StartsWith(trimmed, <<"-">>) \/ ~m.ok
        THEN [ok |-> FALSE, key |-> <<>>, value |-> <<>>, hasValue |-> FALSE,
              valueOffset |-> 0]
        ELSE [ok |-> TRUE, key |-> Group(trimmed, m, 1),
              value |-> IF hasValue THEN Unquote(raw) ELSE <<>>,
              hasValue |-> hasValue, valueOffset |-> adjustedOffset]

\* the key of the line alone, without the key of the parent
BuildKeyOfLine(stack, currentKey) == currentKey

\* buildKeyPath
BuildKeyPath(stack, currentKey) ==
    IF Len(stack) = 0 THEN currentKey
    ELSE Last(stack).key \o <<".">> \o currentKey

\* the loop stops at the first entry that is not of a greater indentation
RECURSIVE PopStackDeeper(_, _)
PopStackDeeper(stack, indent) ==
    IF Len(stack) > 0 /\ Last(stack).indent > indent
    THEN PopStackDeeper(SubSeq(stack, 1, Len(stack) - 1), indent)
    ELSE stack

\* the while loop that pops the entries of the same or a greater indentation
RECURSIVE PopStack(_, _)
PopStack(stack, indent) ==
    IF Len(stack) > 0 /\ Last(stack).indent >= indent
    THEN PopStack(SubSeq(stack, 1, Len(stack) - 1), indent)
    ELSE stack

\* currentDepth > this.options.maxNestedDepth
YamlTooDeep(stack, opts) == Len(stack) + 1 > opts.maxNestedDepth

\* the loop over the lines, from line k at offset currentIndex
RECURSIVE YamlLines(_, _, _, _, _, _, _)
YamlLines(c, lines, k, currentIndex, keyStack, variables, opts) ==
    IF k > Len(lines) THEN [variables |-> variables, keyStack |-> keyStack]
    ELSE LET line == lines[k]
             lineStart == currentIndex
             next == currentIndex + Len(line) + 1
             t == Trim(line)
             isCommented == Exec(line, YAML_COMMENT_REGEX, 0).ok
             indent == GetIndentation(line)
             stack == PopStack(keyStack, indent)
             prefix == Exec(line, YAML_COMMENT_PREFIX, 0)
             lineContent == IF isCommented THEN From(line, prefix.end) ELSE line
             parsed == YamlParseLine(lineContent)
             fullKey == BuildKeyPath(stack, parsed.key)
             actualValueOffset ==
                 IF isCommented
                 THEN IndexOf(line, parsed.value, IndexOf(line, <<":">>, 0) + 1)
                 ELSE parsed.valueOffset
             valueStartIndex == lineStart + actualValueOffset
             valueEndIndex == valueStartIndex + Len(parsed.value)
         IN  IF t = <<>> \/ t = <<"-","-","-">> \/ t = <<".",".",".">>
             THEN YamlLines(c, lines, k + 1, next, keyStack, variables, opts)
             ELSE IF isCommented /\ ~opts.includeCommented
             THEN YamlLines(c, lines, k + 1, next, keyStack, variables, opts)
             ELSE IF ~parsed.ok \/ YamlTooDeep(stack, opts)
             THEN YamlLines(c, lines, k + 1, next, stack, variables, opts)
             ELSE IF parsed.hasValue
             THEN YamlLines(c, lines, k + 1, next, stack,
                            Append(variables,
                                   CreateVariable(fullKey, parsed.value, valueStartIndex,
                                                  valueEndIndex, c, Len(stack) > 0,
                                                  isCommented)),
                            opts)
             ELSE YamlLines(c, lines, k + 1, next,
                            Append(stack, [key |-> fullKey, indent |-> indent]),
                            variables, opts)

YamlParse(c, opts) == YamlLines(c, Split(c, "\n"), 1, 0, <<>>, <<>>, opts).variables

-----------------------------------------------------------------------------
(* TomlParser.                                                             *)

\* the name is taken from behind the first bracket
ARRAY_TABLE_FROM_BRACKET ==
    <<Bol(0), Cls({"["}), Open(1), Cls({"["}), Plus(NotCls({"]"})), Close(1),
      Cls({"]"}), Cls({"]"}), Eol(0)>>

\* /^\[\[([^\]]+)\]\]$/
ARRAY_TABLE_REGEX ==
    <<Bol(0), Cls({"["}), Cls({"["}), Open(1), Plus(NotCls({"]"})), Close(1),
      Cls({"]"}), Cls({"]"}), Eol(0)>>

\* /^([a-zA-Z_][a-zA-Z0-9_.-]*|"[^"]+"|'[^']+')\s*=\s*(.+)$/
TOML_KEY_VALUE_REGEX ==
    <<Bol(0), Open(1),
      Alt(<< <<KeyStart, Star(KeyChar)>>,
             <<Cls({"\""}), Plus(NotCls({"\""})), Cls({"\""})>>,
             <<Cls({"'"}), Plus(NotCls({"'"})), Cls({"'"})>> >>),
      Close(1), Star(AnyS), Cls({"="}), Star(AnyS), Open(2), Plus(Dot), Close(2), Eol(0)>>

\* /^#\s*/
TOML_COMMENT_PREFIX == <<Bol(0), Cls({"#"}), Star(AnyS)>>

\* the string between the quote q (one or three characters) that opens
\* rawValue and the next occurrence of q; ok is FALSE when q is not closed
TomlQuoted(rawValue, q) ==
    LET endQuote == IndexOf(rawValue, q, Len(q))
    IN  [ok |-> endQuote # -1, value |-> Substring(rawValue, Len(q), endQuote),
         quoteOffset |-> Len(q)]

TomlParseValue(rawValue) ==
    LET dq == <<"\"">>
        sq == <<"'">>
        dq3 == <<"\"", "\"", "\"">>
        sq3 == <<"'", "'", "'">>
        commentIndex == IndexOf(rawValue, <<"#">>, 0)
        bare == IF commentIndex # -1 THEN Trim(Substring(rawValue, 0, commentIndex))
                ELSE rawValue
    IN  IF StartsWith(rawValue, dq) /\ ~StartsWith(rawValue, dq3) /\ TomlQuoted(rawValue, dq).ok
        THEN TomlQuoted(rawValue, dq)
        ELSE IF StartsWith(rawValue, sq) /\ ~StartsWith(rawValue, sq3)
                /\ TomlQuoted(rawValue, sq).ok
        THEN TomlQuoted(rawValue, sq)
        ELSE IF StartsWith(rawValue, dq3) /\ TomlQuoted(rawValue, dq3).ok
        THEN TomlQuoted(rawValue, dq3)
        ELSE IF StartsWith(rawValue, sq3) /\ TomlQuoted(rawValue, sq3).ok
        THEN TomlQuoted(rawValue, sq3)
        ELSE [ok |-> TRUE, value |-> bare, quoteOffset |-> 0]

\* parseKeyValue: ok is FALSE where it returns null
TomlParseKeyValue(trimmedLine, originalLine, lineStart) ==
    LET m == Exec(trimmedLine, TOML_KEY_VALUE_REGEX, 0)
        key == Group(trimmedLine, m, 1)
        rawValue == Trim(Group(trimmedLine, m, 2))
        v == TomlParseValue(rawValue)
        equalsIndex == IndexOf(originalLine, <<"=">>, 0)
        afterEquals == From(originalLine, equalsIndex + 1)
        valueInLine == TrimStart(afterEquals)
        valueOffset == equalsIndex + 1 + (Len(afterEquals) - Len(valueInLine))
        valueStartIndex == lineStart + valueOffset + v.quoteOffset
    IN  IF ~m.ok
        THEN [ok |-> FALSE, key |-> <<>>, value |-> <<>>, valueStartIndex |-> 0,
              valueEndIndex |-> 0]
        ELSE [ok |-> TRUE, key |-> Unquote(key), value |-> v.value,
              valueStartIndex |-> valueStartIndex,
              valueEndIndex |-> valueStartIndex + Len(v.value)]

\* the loop over the lines, from line k at offset currentIndex
RECURSIVE TomlLines(_, _, _, _, _, _, _)
TomlLines(c, lines, k, currentIndex, section, variables, opts) ==
    IF k > Len(lines) THEN variables
    ELSE LET line == lines[k]
             trimmed == Trim(line)
             next == currentIndex + Len(line) + 1
             isCommented == StartsWith(trimmed, <<"#">>)
             sectionMatch == Exec(trimmed, SECTION_REGEX, 0)
             arrayTableMatch == Exec(trimmed, ARRAY_TABLE_REGEX, 0)
             lineContent ==
                 IF isCommented
                 THEN From(trimmed, Exec(trimmed, TOML_COMMENT_PREFIX, 0).end)
                 ELSE trimmed
             parsed == TomlParseKeyValue(lineContent, line, currentIndex)
             fullKey == IF section # <<>> THEN section \o <<".">> \o parsed.key
                        ELSE parsed.key
         IN  IF trimmed = <<>> \/ (isCommented /\ ~opts.includeCommented)
             THEN TomlLines(c, lines, k + 1, next, section, variables, opts)
             ELSE IF sectionMatch.ok
             THEN TomlLines(c, lines, k + 1, next, Group(trimmed, sectionMatch, 1),
                            variables, opts)
             ELSE IF arrayTableMatch.ok
             THEN TomlLines(c, lines, k + 1, next, Group(trimmed, arrayTableMatch, 1),
                            variables, opts)
             ELSE IF parsed.ok
             THEN TomlLines(c, lines, k + 1, next, section,
                            Append(variables,
                                   CreateVariable(fullKey, parsed.value,
                                                  parsed.valueStartIndex,
                                                  parsed.valueEndIndex, c,
                                                  Len(section) > 0
                                                      \/ Includes(parsed.key, <<".">>),
                                                  isCommented)),
                            opts)
             ELSE TomlLines(c, lines, k + 1, next, section, variables, opts)

TomlParse(c, opts) == TomlLines(c, Split(c, "\n"), 1, 0, <<>>, <<>>, opts)

-----------------------------------------------------------------------------
(* canParse.                                                               *)

\* path.extname (posix): the text from the last "." of the last path
\* component on, "" when that component has no "." or only a leading one
Extname(path) ==
    LET ends == {e \in 1..Len(path) : path[e] # "/"}
        end == IF ends = {} THEN 0 ELSE Max(ends)
        slashes == {q \in 1..end : path[q] = "/"}
        startPart == IF slashes = {} THEN 0 ELSE Max(slashes)
        comp == Substring(path, startPart, end)
        dots == {d \in 1..Len(comp) : comp[d] = "."}
    IN  IF dots = {} \/ Max(dots) = 1 THEN <<>>
        ELSE IF comp = <<".", ".">> THEN <<>>
        ELSE Substring(comp, Max(dots) - 1, Len(comp))

DotEnv == <<".","e","n","v">>
DotEnvrc == <<".","e","n","v","r","c">>
DotSh == <<".","s","h">>
ExtJson == <<".","j","s","o","n">>
ExtYaml == <<".","y","a","m","l">>
ExtYml == <<".","y","m","l">>
ExtToml == <<".","t","o","m","l">>
WordProperties == <<"p","r","o","p","e","r","t","i","e","s">>
WordIni == <<"i","n","i">>
WordConf == <<"c","o","n","f">>

\* supportedExtensions of the parsers that keep BaseParser.canParse
SupportedExtensions(kind) ==
    CASE kind = "json" -> {ExtJson}
      [] kind = "yaml" -> {ExtYaml, ExtYml}
      [] kind = "toml" -> {ExtToml}

BaseCanParse(kind, name) ==
    ToLowerCase(Extname(name)) \in SupportedExtensions(kind)

\* lowerFileName.split('/').pop() || lowerFileName
EnvBaseName(lowerFileName) ==
    LET b == Last(Split(lowerFileName, "/"))
    IN  IF b # <<>> THEN b ELSE lowerFileName

EnvCanParse(name) ==
    LET baseName == EnvBaseName(ToLowerCase(name))
    IN  \/ baseName = DotEnv
        \/ StartsWith(baseName, DotEnv \o <<".">>)
        \/ EndsWith(baseName, DotEnv)
        \/ baseName = DotEnvrc
        \/ Includes(baseName, DotEnvrc)
        \/ EndsWith(baseName, DotSh)

\* substring-tolerant: the name only has to contain one of the words
PropCanParseContains(name) ==
    LET l == ToLowerCase(name)
    IN  Includes(l, WordProperties) \/ Includes(l, WordIni) \/ Includes(l, WordConf)

PropCanParse(name) ==
    LET ext == Last(Split(ToLowerCase(name), "."))
    IN  ext = WordProperties \/ ext = WordIni \/ ext = WordConf

CanParse(kind, name) ==
    CASE kind = "env" -> EnvCanParse(name)
      [] kind = "properties" -> PropCanParse(name)
      [] OTHER -> BaseCanParse(kind, name)

-----------------------------------------------------------------------------
(* ParserRegistry.                                                         *)

\* the keys of this.parsers, in the order the constructor registers them
Registered == <<"env", "json", "yaml", "properties", "toml">>
IsRegistered(type) == \E k \in 1..Len(Registered) : Registered[k] = type

\* Set.add: a member keeps the place of its first insertion
SetAdd(set, x) ==
    IF \E k \in 1..Len(set) : set[k] = x THEN set ELSE Append(set, x)

\* the enabled set is kept instead of cleared
NotCleared(enabled) == enabled
\* this.enabledParsers.clear()
Cleared(enabled) == <<>>

RECURSIVE AddEnabled(_, _)
AddEnabled(enabled, types) ==
    IF types = <<>> THEN enabled
    ELSE AddEnabled(IF IsRegistered(Head(types)) THEN SetAdd(enabled, Head(types))
                    ELSE enabled,
                    Tail(types))

\* setEnabledParsers(types) on the enabled set `enabled`
EnabledAfter(enabled, types) == AddEnabled(Cleared(enabled), types)

\* every registered parser is asked, enabled or not
FirstRegisteredFor(enabled, name) ==
    LET C == {k \in 1..Len(Registered) : CanParse(Registered[k], name)}
    IN  IF C = {} THEN "undefined" ELSE Registered[Min(C)]

\* findParserForFile(name): the first enabled parser that takes the name
FindParserForFile(enabled, name) ==
    LET C == {k \in 1..Len(enabled) : CanParse(enabled[k], name)}
    IN  IF C = {} THEN "undefined" ELSE enabled[Min(C)]

\* the options of the parsers after `new ParserRegistry()`
RegisteredSet == {Registered[k] : k \in 1..Len(Registered)}
FreshParserOptions == [t \in RegisteredSet |-> BaseConstructor(NoOptions)]

\* updateParserOptions(type, options) on the parsers' options `all`
UpdateParserOptions(all, type, partial) ==
    IF IsRegistered(type)
    THEN [all EXCEPT ![type] = SetOptions(all[type], partial)]
    ELSE all

-----------------------------------------------------------------------------
(* The pattern matcher.  A pattern of a list read from the settings is a   *)
(* text, or a value that is no string at all; a regex source is a text;    *)
(* a compiled regex is a sequence of nodes.                                *)

\* a settings entry that is not a string (a number, null, an object)
NotAString == <<"number">>
IsString(pattern) == pattern # NotAString

\* [.*+?^${}()|[\]\\]
RegexSyntax == {".", "*", "+", "?", "^", "$", "{", "}", "(", ")", "|", "[", "]", "\\"}

\* the characters flag i takes for c
CaseVariants(c) == {x \in Lower \cup Upper : LowerOf(x) = LowerOf(c)} \cup {c}

\* nothing is escaped
EscapeNothing(str) == str

\* str.replace(/[.*+?^${}()|[\]\\]/g, '\\$&')
EscapeRegex(str) ==
    Concat([n \in 1..Len(str) |->
               IF str[n] \in RegexSyntax THEN <<"\\", str[n]>> ELSE <<str[n]>>])

\* new RegExp(source, 'i') from character i of source on: ok is FALSE where
\* it throws a SyntaxError.  A backslash makes the next character a literal
\* (the sources hold it before syntax characters only); "*" repeats the
\* character before it and has nothing to repeat at the start or behind an
\* assertion; "[", "(" and ")" on their own do not compile.
RECURSIVE RegExpCompile(_, _, _)
RegExpCompile(source, i, nodes) ==
    LET bad == [ok |-> FALSE, nodes |-> <<>>]
        ch == source[i]
    IN  IF i > Len(source) THEN [ok |-> TRUE, nodes |-> nodes]
        ELSE CASE ch = "\\" ->
                    IF i = Len(source) THEN bad
                    ELSE RegExpCompile(source, i + 2,
                                       Append(nodes, Cls(CaseVariants(source[i + 1]))))
               [] ch = "^" -> RegExpCompile(source, i + 1, Append(nodes, Bol(0)))
               [] ch = "$" -> RegExpCompile(source, i + 1, Append(nodes, Eol(0)))
               [] ch = "." -> RegExpCompile(source, i + 1, Append(nodes, Dot))
               [] ch = "*" ->
                    IF nodes = <<>> \/ Last(nodes).t # "cls" THEN bad
                    ELSE RegExpCompile(source, i + 1,
                                       [nodes EXCEPT ![Len(nodes)] = Star(Last(nodes))])
               [] ch \in {"[", "(", ")"} -> bad
               [] OTHER ->
                    RegExpCompile(source, i + 1, Append(nodes, Cls(CaseVariants(ch))))

\* regex.test(key), for a regex without flag g
RegExpTest(regex, k) == Exec(k, regex, 0).ok

\* patternToRegex: threw is TRUE where it throws: a pattern that is no
\* string has no startsWith (TypeError), a source may not compile (SyntaxError)
PatternToRegex(pattern) ==
    LET star == <<"*">>
        regexPattern ==
            IF StartsWith(pattern, star) /\ EndsWith(pattern, star)
            THEN EscapeRegex(Slice(pattern, 1, -1))
            ELSE IF StartsWith(pattern, star)
            THEN EscapeRegex(From(pattern, 1)) \o <<"$">>
            ELSE IF EndsWith(pattern, star)
            THEN <<"^">> \o EscapeRegex(Slice(pattern, 0, -1))
            ELSE <<"^">> \o EscapeRegex(pattern) \o <<"$">>
        compiled == RegExpCompile(regexPattern, 1, <<>>)
    IN  IF ~IsString(pattern) THEN [threw |-> TRUE, regex |-> <<>>]
        ELSE [threw |-> ~compiled.ok, regex |-> compiled.nodes]

\* the callback without its try: the exception leaves it
TestPatternUncaught(k, pattern) ==
    LET r == PatternToRegex(pattern)
    IN  [threw |-> r.threw, value |-> ~r.threw /\ RegExpTest(r.regex, k)]

\* the callback of patterns.some in matchesAnyPattern:
\* try { return patternToRegex(pattern).test(key) } catch { return false }
TestPattern(k, pattern) ==
    LET r == PatternToRegex(pattern)
    IN  [threw |-> FALSE, value |-> ~r.threw /\ RegExpTest(r.regex, k)]

\* patterns.some(callback) from pattern n on: it stops at the first hit
RECURSIVE SomePattern(_, _, _)
SomePattern(k, pats, n) ==
    IF n > Len(pats) THEN [threw |-> FALSE, value |-> FALSE]
    ELSE LET r == TestPattern(k, pats[n])
         IN  IF r.threw \/ r.value THEN r ELSE SomePattern(k, pats, n + 1)

\* only the first pattern is tested
MatchesFirstPattern(k, pats) ==
    IF Len(pats) = 0 THEN [threw |-> FALSE, value |-> FALSE]
    ELSE TestPattern(k, pats[1])

\* matchesAnyPattern
MatchesAnyPattern(k, pats) ==
    IF Len(pats) = 0 THEN [threw |-> FALSE, value |-> FALSE]
    ELSE SomePattern(k, pats, 1)

\* PatternMatcher.cache is a function from the cached patterns to their regex
EmptyCache == [g \in {} |-> <<>>]
CacheSet(c, pattern, regex) ==
    [g \in DOMAIN c \cup {pattern} |-> IF g = pattern THEN regex ELSE c[g]]

\* whatever is cached first is returned for every pattern
GetRegexAnyCached(c, pattern) ==
    LET r == PatternToRegex(pattern)
    IN  IF DOMAIN c # {}
        THEN [threw |-> FALSE, cache |-> c,
              regex |-> c[CHOOSE g \in DOMAIN c : TRUE]]
        ELSE IF r.threw THEN [threw |-> TRUE, regex |-> <<>>, cache |-> c]
        ELSE [threw |-> FALSE, regex |-> r.regex,
              cache |-> CacheSet(c, pattern, r.regex)]

\* PatternMatcher.getRegex: the regex, and the cache it leaves
GetRegex(c, pattern) ==
    LET r == PatternToRegex(pattern)
    IN  IF pattern \in DOMAIN c
        THEN [threw |-> FALSE, regex |-> c[pattern], cache |-> c]
        ELSE IF r.threw THEN [threw |-> TRUE, regex |-> <<>>, cache |-> c]
        ELSE [threw |-> FALSE, regex |-> r.regex,
              cache |-> CacheSet(c, pattern, r.regex)]

\* the callback of patterns.some in PatternMatcher.matches
TestCached(c, k, pattern) ==
    LET r == GetRegex(c, pattern)
    IN  [threw |-> FALSE, value |-> ~r.threw /\ RegExpTest(r.regex, k),
         cache |-> r.cache]

RECURSIVE SomeCached(_, _, _, _)
SomeCached(c, k, pats, n) ==
    IF n > Len(pats) THEN [threw |-> FALSE, value |-> FALSE, cache |-> c]
    ELSE LET r == TestCached(c, k, pats[n])
         IN  IF r.threw \/ r.value THEN r ELSE SomeCached(r.cache, k, pats, n + 1)

\* PatternMatcher.matches
Matches(c, k, pats) ==
    IF Len(pats) = 0 THEN [threw |-> FALSE, value |-> FALSE, cache |-> c]
    ELSE SomeCached(c, k, pats, 1)

-----------------------------------------------------------------------------
(* The overlay: Camouflage.processParserResults.  A decoration is the      *)
(* range of a value, as its two offsets, and the key its hover text names. *)

\* getExcludeKeys(), isSelectiveHidingEnabled() and getKeyPatterns() of a
\* configuration without selective hiding settings
DefaultSelective ==
    [excludeKeys |-> <<>>, selectiveEnabled |-> FALSE,
     keyPatterns |-> << <<"*", "K", "E", "Y", "*">>,
                        <<"*", "T", "O", "K", "E", "N", "*">>,
                        <<"*", "S", "E", "C", "R", "E", "T", "*">>,
                        <<"*", "P", "A", "S", "S", "W", "O", "R", "D", "*">>,
                        <<"*", "P", "W", "D", "*">>,
                        <<"*", "D", "B", "*">>,
                        <<"*", "D", "A", "T", "A", "B", "A", "S", "E", "*">>,
                        <<"*", "P", "O", "R", "T", "*">> >>]

\* an exclude match skips the variable only when it matches no key pattern
IsExcludedUnlessIncluded(variable, cfg) ==
    /\ Len(cfg.excludeKeys) > 0
    /\ MatchesAnyPattern(variable.key, cfg.excludeKeys).value
    /\ ~MatchesAnyPattern(variable.key, cfg.keyPatterns).value

\* if (excludeKeys.length > 0) { const isExcluded = matchesAnyPattern(key, excludeKeys) ... }
IsExcluded(variable, cfg) ==
    /\ Len(cfg.excludeKeys) > 0
    /\ MatchesAnyPattern(variable.key, cfg.excludeKeys).value

\* the loop over the variables from variable n on, with an active editor
RECURSIVE ProcessFrom(_, _, _, _)
ProcessFrom(variables, n, pushed, cfg) ==
    IF n > Len(variables) THEN pushed
    ELSE LET variable == variables[n]
             skip == \/ Trim(variable.value) = <<>>
                     \/ IsExcluded(variable, cfg)
                     \/ /\ cfg.selectiveEnabled
                        /\ ~MatchesAnyPattern(variable.key, cfg.keyPatterns).value
             decoration == [range |-> <<variable.startIndex, variable.endIndex>>,
                            key |-> variable.key]
         IN  ProcessFrom(variables, n + 1,
                         IF skip THEN pushed ELSE Append(pushed, decoration), cfg)

\* processParserResults(variables, decorations, ...) with decorations = []
ProcessParserResults(variables, cfg) == ProcessFrom(variables, 1, <<>>, cfg)

-----------------------------------------------------------------------------
(* The Debounce decorator.  The closure of a decorated method holds one    *)
(* timer; a timer is armed or not, and an armed one has the time it is due *)
(* and the arguments (with the receiver) its callback will apply.          *)

\* @Debounce(50) on Camouflage.triggerUpdateDecorations
UPDATE_WAIT == 50

\* let timeout: before the first call, and a timer that fired
NoTimeout == [armed |-> FALSE, due |-> 0, args |-> <<>>]

\* a call leaves a timer that is pending alone
KeepPending(timer, at, ms, args) ==
    IF timer.armed THEN timer ELSE [armed |-> TRUE, due |-> at + ms, args |-> args]

\* clearTimeout(timeout); timeout = setTimeout(() => originalMethod.apply(this, args), wait)
Rearm(timer, at, ms, args) == [armed |-> TRUE, due |-> at + ms, args |-> args]

-----------------------------------------------------------------------------
(* PasswordManager.  A hash is the password it was made from, marked:      *)
(* compareSync holds of an input and a hash exactly when the hash was made *)
(* from that input.                                                        *)

Undefined == "undefined"

\* the divisor of (Date.now() - this.lastVerified) / 1000
MS_PER_SECOND == 1000

\* the defaults of security.passwordProtection, passwordTimeout, maxAttempts
\* and rememberPassword
DefaultSecurity ==
    [passwordProtection |-> FALSE, passwordTimeout |-> 300, maxAttempts |-> 3,
     rememberPassword |-> TRUE]

\* bcrypt.hashSync(password, saltRounds)
HashPassword(p) == <<"bcrypt", p>>
\* bcrypt.compareSync(input, hash)
CompareSync(input, hash) == hash = HashPassword(input)

\* isPasswordProtectionEnabled()
IsPasswordProtectionEnabled(sec, hashed) == sec.passwordProtection /\ hashed # Undefined

\* isTimeoutExceeded(): elapsed seconds > timeout, on the millisecond clock
IsTimeoutExceeded(sec, at, last) ==
    /\ sec.passwordTimeout > 0
    /\ at - last > sec.passwordTimeout * MS_PER_SECOND

\* the manager locks one attempt late
MaxAttemptsPassed(n, maxAttempts) == maxAttempts > 0 /\ n > maxAttempts

\* maxAttempts > 0 && this.attempts >= maxAttempts
MaxAttemptsReached(n, maxAttempts) == maxAttempts > 0 /\ n >= maxAttempts

\* no call awaits an input box; no verifyPassword call has returned
NoCall == [op |-> "none"]
NoOutcome == [value |-> TRUE, prompted |-> FALSE, lockedOut |-> FALSE, enabled |-> FALSE]

-----------------------------------------------------------------------------
(* What an instance leaves alone.                                          *)

\* no pattern matcher call was made
MatcherIdle ==
    /\ cache = EmptyCache
    /\ testedKey = <<>>
    /\ patterns = <<>>
    /\ matched = FALSE
    /\ op = "none"

\* no overlay run was made
OverlayIdle ==
    /\ config = DefaultSelective
    /\ located = <<>>
    /\ decorations = <<>>

\* the parsers of the registry are as constructed
OptionsIdle ==
    /\ parserOptions = FreshParserOptions
    /\ log = <<>>

\* no YamlParser.parse call is in progress
YamlLoopIdle ==
    /\ yamlKeyStack = <<>>
    /\ yamlLineIndex = 0
    /\ yamlCurrentIndex = 0

\* no timer was ever set by the debounced triggerUpdateDecorations
TimerIdle ==
    /\ wait = UPDATE_WAIT
    /\ now = 0
    /\ timeout = NoTimeout
    /\ trace = <<>>

\* PasswordManager as constructed, no call made
PasswordIdle ==
    /\ hashedPassword = Undefined
    /\ password = Undefined
    /\ lastVerified = 0
    /\ attempts = 0
    /\ locked = FALSE
    /\ security = DefaultSecurity
    /\ waiting = NoCall
    /\ wrong = 0
    /\ outcome = NoOutcome

\* the other components are as constructed
ComponentsIdle == YamlLoopIdle /\ TimerIdle /\ PasswordIdle

-----------------------------------------------------------------------------
(* The parser instances: one instance of one parser, parse calls on it.    *)

FreshLastIndex == [plain |-> 0, commented |-> 0]

\* the registry part of the state, left alone by the parser instances
RegistryIdle ==
    /\ enabledParsers = <<>>
    /\ lastTypes = <<>>
    /\ fileName = <<>>
    /\ found = "undefined"

\* new P(opts), before any call
Constructed(kind, optionSet) ==
    /\ parser = kind
    /\ pc = "idle"
    /\ content = <<>>
    /\ result = <<>>
    /\ options \in optionSet
    /\ currentSection = <<>>
    /\ lastIndex = FreshLastIndex
    /\ calls = 0
    /\ entry = <<>>
    /\ RegistryIdle
    /\ MatcherIdle
    /\ OverlayIdle
    /\ OptionsIdle
    /\ ComponentsIdle

\* the caller takes the list (or the exception) and drops it
Return ==
    /\ pc \in {"returned", "threw"}
    /\ pc' = "idle"
    /\ content' = <<>>
    /\ result' = <<>>
    /\ entry' = <<>>
    /\ UNCHANGED <<parser, options, currentSection, lastIndex,
                   enabledParsers, lastTypes, fileName, found, calls>>
    /\ UNCHANGED <<matcherVars, overlayVars, optionVars, componentVars>>

\* the options of a parser that reads no depth limit
CommentOptions ==
    [maxNestedDepth : {DEFAULT_MAX_NESTED_DEPTH}, includeCommented : BOOLEAN]

\* the texts EnvParser is given: up to MaxEnvFrags of these pieces
EnvFragments ==
    {<<"A","=">>, <<"A">>, <<"=">>, <<" ">>, <<"\n">>, <<"#">>,
     <<"e","x","p","o","r","t"," ">>, <<"A","=","x">>}
EnvInputs == {Concat(fs) : fs \in SeqsUpTo(EnvFragments, MaxEnvFrags)}

\* parse(c) on the EnvParser instance: call number calls + 1 of MaxCalls
EnvParseCall ==
    /\ parser = "env"
    /\ pc = "idle"
    /\ calls < MaxCalls
    /\ \E c \in EnvInputs :
          LET r == EnvParse(c, options, lastIndex)
          IN  /\ result' = r.variables
              /\ lastIndex' = r.lastIndex
              /\ content' = c
    /\ pc' = "returned"
    /\ calls' = calls + 1
    /\ entry' = currentSection
    /\ UNCHANGED <<parser, options, currentSection,
                   enabledParsers, lastTypes, fileName, found>>
    /\ UNCHANGED <<matcherVars, overlayVars, optionVars, componentVars>>

InitEnv == Constructed("env", CommentOptions)
NextEnv == EnvParseCall \/ Return
SpecEnv == InitEnv /\ [][NextEnv]_vars

\* the texts PropertiesParser is given: up to MaxPropFrags of these pieces
PropFragments ==
    {<<"[","s","]","\n">>, <<"k","=">>, <<"k">>, <<" ">>, <<"\n">>, <<"#">>}
PropInputs == {Concat(fs) : fs \in SeqsUpTo(PropFragments, MaxPropFrags)}

\* parse(c) on the PropertiesParser instance: call number calls + 1 of MaxCalls
PropertiesParseCall ==
    /\ parser = "properties"
    /\ pc = "idle"
    /\ calls < MaxCalls
    /\ \E c \in PropInputs :
          LET r == PropertiesParse(c, options, currentSection)
          IN  /\ result' = r.variables
              /\ currentSection' = r.currentSection
              /\ content' = c
    /\ pc' = "returned"
    /\ calls' = calls + 1
    /\ entry' = currentSection
    /\ UNCHANGED <<parser, options, lastIndex,
                   enabledParsers, lastTypes, fileName, found>>
    /\ UNCHANGED <<matcherVars, overlayVars, optionVars, componentVars>>

InitProps == Constructed("properties", CommentOptions)
NextProps == PropertiesParseCall \/ Return
SpecProps == InitProps /\ [][NextProps]_vars

\* the options with a depth limit: the limits 0..MaxDepthOption and the default
DepthLimits == (0..MaxDepthOption) \cup {DEFAULT_MAX_NESTED_DEPTH}

\* the texts JsonParser is given.  A nested value is a string, a number, or
\* an object or an array that holds one nested value; a document is an
\* object of up to MaxJsonMembers members under the keys "a" and "0", or a
\* nested value of one level more; and each document comes whole, cut one
\* character short, and with a comma before its last character.  A draft is
\* a file being written: up to MaxJsonPieces of the pieces of an object.
JsonKeys == {"a", "0"}
JsonLeaves == {<<"\"", "v", "\"">>, <<"0">>}
JsonMember(k, v) == <<"\"", k, "\"", ":", " ">> \o v
RECURSIVE JsonNested(_)
JsonNested(n) ==
    IF n = 0 THEN JsonLeaves
    ELSE LET inner == JsonNested(n - 1)
         IN  JsonLeaves
             \cup {<<"{">> \o JsonMember("a", v) \o <<"}">> : v \in inner}
             \cup {<<"[">> \o v \o <<"]">> : v \in inner}
RECURSIVE JoinWith(_, _)
JoinWith(ls, sep) ==
    IF Len(ls) = 0 THEN <<>>
    ELSE IF Len(ls) = 1 THEN ls[1]
    ELSE ls[1] \o <<sep>> \o JoinWith(Tail(ls), sep)
JsonDocuments ==
    LET members == {JsonMember(k, v) : k \in JsonKeys, v \in JsonNested(MaxJsonNesting)}
    IN  {<<"{">> \o JoinWith(ms, ",") \o <<"}">> : ms \in SeqsUpTo(members, MaxJsonMembers)}
        \cup JsonNested(MaxJsonNesting + 1)
JsonPieces ==
    {<<"{">>, JsonMember("a", <<"\"", "v", "\"">>), JsonMember("0", <<"\"", "v", "\"">>),
     <<",">>, <<"}">>}
JsonDrafts == {Concat(fs) : fs \in SeqsUpTo(JsonPieces, MaxJsonPieces)}
JsonInputs ==
    JsonDocuments
    \cup JsonDrafts
    \cup {SubSeq(d, 1, Len(d) - 1) : d \in JsonDocuments}
    \cup {SubSeq(d, 1, Len(d) - 1) \o <<",", Last(d)>> : d \in JsonDocuments}
JsonOptions == [maxNestedDepth : DepthLimits, includeCommented : {TRUE}]

\* parse(c) on the JsonParser instance, which has no fields but its options
JsonParseCall ==
    /\ parser = "json"
    /\ pc = "idle"
    /\ \E c \in JsonInputs :
          LET r == JsonParse(c, options)
          IN  /\ result' = r.variables
              /\ pc' = IF r.threw THEN "threw" ELSE "returned"
              /\ content' = c
    /\ entry' = currentSection
    /\ UNCHANGED <<parser, options, currentSection, lastIndex,
                   enabledParsers, lastTypes, fileName, found, calls>>
    /\ UNCHANGED <<matcherVars, overlayVars, optionVars, componentVars>>

InitJson == Constructed("json", JsonOptions)
NextJson == JsonParseCall \/ Return
SpecJson == InitJson /\ [][NextJson]_vars

\* the texts YamlParser is given: up to MaxYamlLines lines, each an empty
\* line or one of these bodies behind 0..MaxIndent spaces
YamlBodies ==
    {<<"p",":">>, <<"k",":"," ","v">>, <<"#","p",":">>, <<"#","k",":"," ","v">>,
     <<"k",":"," ","\"","v","\"">>, <<"k",":"," ","\"","v">>}
Spaces(n) == [p \in 1..n |-> " "]
YamlLineSet == {Spaces(n) \o b : n \in 0..MaxIndent, b \in YamlBodies} \cup {<<>>}
YamlInputs == {JoinWith(ls, "\n") : ls \in SeqsUpTo(YamlLineSet, MaxYamlLines)}
YamlOptions ==
    [maxNestedDepth : DepthLimits \ {0}, includeCommented : BOOLEAN]

\* parse(c) on the YamlParser instance, which has no fields but its options
YamlParseCall ==
    /\ parser = "yaml"
    /\ pc = "idle"
    /\ \E c \in YamlInputs :
          /\ result' = YamlParse(c, options)
          /\ content' = c
    /\ pc' = "returned"
    /\ entry' = currentSection
    /\ UNCHANGED <<parser, options, currentSection, lastIndex,
                   enabledParsers, lastTypes, fileName, found, calls>>
    /\ UNCHANGED <<matcherVars, overlayVars, optionVars, componentVars>>

InitYaml == Constructed("yaml", YamlOptions)
NextYaml == YamlParseCall \/ Return
SpecYaml == InitYaml /\ [][NextYaml]_vars

\* the pass of the loop of YamlParser.parse over line k of the text
YamlLine(c, k, index, stack, variables, opts) ==
    YamlLines(c, SubSeq(Split(c, "\n"), 1, k), k, index, stack, variables, opts)

\* a block nested three deep, and that block with a comment line before any
\* of its lines or behind the last
YamlBlock ==
    << <<"l","1",":">>, <<" "," ","l","2",":">>,
       <<" "," "," "," ","l","3",":"," ","v">> >>
YamlCommentLines == {Spaces(n) \o <<"#","c">> : n \in {0, 2, 4}}
InsertAt(ls, i, l) == SubSeq(ls, 1, i) \o <<l>> \o SubSeq(ls, i + 1, Len(ls))
YamlBlocks ==
    {JoinWith(YamlBlock, "\n")}
    \cup {JoinWith(InsertAt(YamlBlock, i, l), "\n") :
              i \in 0..Len(YamlBlock), l \in YamlCommentLines}

\* parse(c) is entered: const variables = [], keyStack = [], currentIndex = 0
YamlParseBegin ==
    /\ parser = "yaml"
    /\ pc = "idle"
    /\ \E c \in YamlInputs \cup YamlBlocks : content' = c
    /\ result' = <<>>
    /\ yamlKeyStack' = <<>>
    /\ yamlLineIndex' = 0
    /\ yamlCurrentIndex' = 0
    /\ pc' = "looping"
    /\ UNCHANGED <<parser, options, currentSection, lastIndex, calls, entry>>
    /\ UNCHANGED <<registryVars, matcherVars, overlayVars, optionVars, timerVars,
                   passwordVars>>

\* one pass of the for loop, over lines[lineIndex]
YamlLineStep ==
    /\ pc = "looping"
    /\ yamlLineIndex < Len(Split(content, "\n"))
    /\ LET line == Split(content, "\n")[yamlLineIndex + 1]
           after == YamlLine(content, yamlLineIndex + 1, yamlCurrentIndex,
                             yamlKeyStack, result, options)
       IN  /\ result' = after.variables
           /\ yamlKeyStack' = after.keyStack
           /\ yamlCurrentIndex' = yamlCurrentIndex + Len(line) + 1
    /\ yamlLineIndex' = yamlLineIndex + 1
    /\ UNCHANGED <<pc, parser, content, options, currentSection, lastIndex, calls,
                   entry>>
    /\ UNCHANGED <<registryVars, matcherVars, overlayVars, optionVars, timerVars,
                   passwordVars>>

\* the loop is over: return variables
YamlParseEnd ==
    /\ pc = "looping"
    /\ yamlLineIndex = Len(Split(content, "\n"))
    /\ pc' = "returned"
    /\ UNCHANGED <<parserVars, registryVars, matcherVars, overlayVars, optionVars,
                   componentVars>>

NextYamlLoop == YamlParseBegin \/ YamlLineStep \/ YamlParseEnd \/ Return
SpecYamlLoop == InitYaml /\ [][NextYamlLoop]_vars

\* the texts TomlParser is given: up to MaxTomlFrags of these pieces
TomlFragments ==
    {<<"[","s","]","\n">>, <<"k","=">>, <<"v">>, <<"\"","v","\"">>, <<" ">>, <<"\n">>,
     <<"#">>, <<"=">>, <<"\"","=","\"">>, <<"'","v","'">>,
     <<"\"","\"","\"","v","\"","\"","\"">>}
TomlInputs == {Concat(fs) : fs \in SeqsUpTo(TomlFragments, MaxTomlFrags)}

\* files of tables: up to MaxTomlLines lines, each a header, a commented-out
\* header, a pair or a commented-out pair
TomlTableLines ==
    {<<"[","s","]">>, <<"[","[","t","]","]">>, <<"#","[","u","]">>,
     <<"k","=","v">>, <<"#","k","=","v">>}
TomlTables == {JoinWith(ls, "\n") : ls \in SeqsUpTo(TomlTableLines, MaxTomlLines)}

\* parse(c) on the TomlParser instance, which has no fields but its options
TomlParseCall ==
    /\ parser = "toml"
    /\ pc = "idle"
    /\ \E c \in TomlInputs \cup TomlTables :
          /\ result' = TomlParse(c, options)
          /\ content' = c
    /\ pc' = "returned"
    /\ entry' = currentSection
    /\ UNCHANGED <<parser, options, currentSection, lastIndex,
                   enabledParsers, lastTypes, fileName, found, calls>>
    /\ UNCHANGED <<matcherVars, overlayVars, optionVars, componentVars>>

InitToml == Constructed("toml", CommentOptions)
NextToml == TomlParseCall \/ Return
SpecToml == InitToml /\ [][NextToml]_vars

\* an instance of any of the five parsers
InitParsers == InitEnv \/ InitJson \/ InitYaml \/ InitProps \/ InitToml
NextParsers ==
    \/ EnvParseCall
    \/ JsonParseCall
    \/ YamlParseCall
    \/ PropertiesParseCall
    \/ TomlParseCall
    \/ Return
SpecParsers == InitParsers /\ [][NextParsers]_vars

-----------------------------------------------------------------------------
(* The registry: setEnabledParsers and findParserForFile calls.            *)

\* the parser part of the state, left alone by the registry
ParsersIdle ==
    /\ parser = "none"
    /\ content = <<>>
    /\ result = <<>>
    /\ options = DEFAULT_PARSER_OPTIONS
    /\ currentSection = <<>>
    /\ lastIndex = FreshLastIndex
    /\ calls = 0
    /\ entry = <<>>

\* the identifiers setEnabledParsers is given: two of the five types and an
\* unknown one
TypeIds == {"env", "json", "xml"}
TypeLists == SeqsUpTo(TypeIds, MaxTypes)

\* the file names: up to MaxNameFrags of these pieces
NameFragments ==
    {DotEnv, DotEnvrc, DotSh, ExtJson, ExtYml, ExtToml, <<".">> \o WordProperties,
     WordIni, <<"/">>, <<".","I","N","I">>}
FileNames == {Concat(fs) : fs \in SeqsUpTo(NameFragments, MaxNameFrags)}

\* new ParserRegistry(enabledParsers): by default all five types
InitRegistry ==
    /\ ParsersIdle
    /\ pc = "idle"
    /\ lastTypes \in TypeLists \cup {Registered}
    /\ enabledParsers = EnabledAfter(<<>>, lastTypes)
    /\ fileName = <<>>
    /\ found = "undefined"
    /\ MatcherIdle
    /\ OverlayIdle
    /\ OptionsIdle
    /\ ComponentsIdle

SetEnabledParsers ==
    /\ pc = "idle"
    /\ \E types \in TypeLists :
          /\ enabledParsers' = EnabledAfter(enabledParsers, types)
          /\ lastTypes' = types
    /\ UNCHANGED <<parser, pc, content, result, options, currentSection,
                   lastIndex, fileName, found, calls, entry>>
    /\ UNCHANGED <<matcherVars, overlayVars, optionVars, componentVars>>

FindParserCall ==
    /\ pc = "idle"
    /\ \E name \in FileNames :
          /\ fileName' = name
          /\ found' = FindParserForFile(enabledParsers, name)
    /\ pc' = "returned"
    /\ UNCHANGED <<parser, content, result, options, currentSection,
                   lastIndex, enabledParsers, lastTypes, calls, entry>>
    /\ UNCHANGED <<matcherVars, overlayVars, optionVars, componentVars>>

\* the caller takes the answer
FindReturn ==
    /\ pc = "returned"
    /\ pc' = "idle"
    /\ fileName' = <<>>
    /\ found' = "undefined"
    /\ UNCHANGED <<parser, content, result, options, currentSection,
                   lastIndex, enabledParsers, lastTypes, calls, entry>>
    /\ UNCHANGED <<matcherVars, overlayVars, optionVars, componentVars>>

Init == InitRegistry
Next ==
    \/ SetEnabledParsers
    \/ FindParserCall
    \/ FindReturn
Spec == Init /\ [][Next]_vars

-----------------------------------------------------------------------------
(* The options of the parsers of a registry: setOptions calls on a parser   *)
(* taken from the registry, and updateParserOptions calls.                 *)

\* the partial options objects the calls are given
Partials ==
    {NoOptions, [maxNestedDepth |-> 0], [maxNestedDepth |-> 5],
     [includeCommented |-> FALSE]}

\* the types the calls name: two registered ones and an unknown one
OptionTypes == {"json", "toml", "xml"}

\* registry.getParser(type).setOptions(partial), call number Len(log) + 1 of
\* MaxSetOptions; getParser gives undefined for an unknown type
SetOptionsCall ==
    /\ pc = "idle"
    /\ Len(log) < MaxSetOptions
    /\ \E type \in OptionTypes \cap RegisteredSet, partial \in Partials :
          /\ parserOptions' =
                [parserOptions EXCEPT ![type] = SetOptions(parserOptions[type], partial)]
          /\ log' = Append(log, [type |-> type, options |-> partial])
    /\ UNCHANGED <<pc, parserVars, registryVars, matcherVars, overlayVars, componentVars>>

\* registry.updateParserOptions(type, partial)
UpdateParserOptionsCall ==
    /\ pc = "idle"
    /\ Len(log) < MaxSetOptions
    /\ \E type \in OptionTypes, partial \in Partials :
          /\ parserOptions' = UpdateParserOptions(parserOptions, type, partial)
          /\ log' = Append(log, [type |-> type, options |-> partial])
    /\ UNCHANGED <<pc, parserVars, registryVars, matcherVars, overlayVars, componentVars>>

NextOptions ==
    \/ SetOptionsCall
    \/ UpdateParserOptionsCall
    \/ SetEnabledParsers
SpecOptions == Init /\ [][NextOptions]_vars

-----------------------------------------------------------------------------
(* The pattern matcher: calls of the exported functions, and calls on one  *)
(* PatternMatcher instance.                                                *)

\* the patterns patternToRegex is given: texts of up to MaxGlobLen of these
\* characters; the keys: texts of up to MaxKeyLen of those
GlobChars == {"*", "a", "B", "."}
KeyLetters == {"a", "A", "b", ".", "*"}
Globs == SeqsUpTo(GlobChars, MaxGlobLen)
Keys == SeqsUpTo(KeyLetters, MaxKeyLen)

\* the pattern lists of the settings: up to MaxPatterns of these entries, one
\* of them no string; and the keys they are asked about
ListEntries == {<<"*", "a">>, <<"B", "*">>, <<".">>, NotAString}
PatternLists == SeqsUpTo(ListEntries, MaxPatterns)
ListKeys == SeqsUpTo({"a", "b", "."}, MaxListKeyLen)

\* nothing but the pattern matcher exists
InitMatcher ==
    /\ ParsersIdle
    /\ pc = "idle"
    /\ RegistryIdle
    /\ MatcherIdle
    /\ OverlayIdle
    /\ OptionsIdle
    /\ ComponentsIdle

\* patternToRegex(pattern).test(key)
PatternToRegexCall ==
    /\ pc = "idle"
    /\ \E pattern \in Globs :
          LET r == PatternToRegex(pattern)
          IN  \E k \in Keys :
                /\ patterns' = <<pattern>>
                /\ testedKey' = k
                /\ matched' = (~r.threw /\ RegExpTest(r.regex, k))
                /\ pc' = IF r.threw THEN "threw" ELSE "returned"
    /\ op' = "patternToRegex"
    /\ UNCHANGED <<cache, parserVars, registryVars, overlayVars, optionVars,
                   componentVars>>

\* matchesAnyPattern(key, patterns)
MatchesAnyPatternCall ==
    /\ pc = "idle"
    /\ \E pats \in PatternLists, k \in ListKeys :
          LET r == MatchesAnyPattern(k, pats)
          IN  /\ patterns' = pats
              /\ testedKey' = k
              /\ matched' = r.value
              /\ pc' = IF r.threw THEN "threw" ELSE "returned"
    /\ op' = "matchesAnyPattern"
    /\ UNCHANGED <<cache, parserVars, registryVars, overlayVars, optionVars,
                   componentVars>>

\* matcher.matches(key, patterns)
MatchesCall ==
    /\ pc = "idle"
    /\ \E pats \in PatternLists, k \in ListKeys :
          LET r == Matches(cache, k, pats)
          IN  /\ patterns' = pats
              /\ testedKey' = k
              /\ matched' = r.value
              /\ cache' = r.cache
              /\ pc' = IF r.threw THEN "threw" ELSE "returned"
    /\ op' = "matches"
    /\ UNCHANGED <<parserVars, registryVars, overlayVars, optionVars, componentVars>>

\* matcher.clearCache()
ClearCache ==
    /\ pc = "idle"
    /\ cache' = EmptyCache
    /\ UNCHANGED <<pc, testedKey, patterns, matched, op,
                   parserVars, registryVars, overlayVars, optionVars, componentVars>>

\* the caller takes the answer (or the exception)
MatcherReturn ==
    /\ pc \in {"returned", "threw"}
    /\ pc' = "idle"
    /\ testedKey' = <<>>
    /\ patterns' = <<>>
    /\ matched' = FALSE
    /\ op' = "none"
    /\ UNCHANGED <<cache, parserVars, registryVars, overlayVars, optionVars,
                   componentVars>>

\* the exported functions
NextPattern ==
    \/ PatternToRegexCall
    \/ MatchesAnyPatternCall
    \/ MatcherReturn
SpecPattern == InitMatcher /\ [][NextPattern]_vars

\* one PatternMatcher, next to the exported matchesAnyPattern
NextMatcher ==
    \/ MatchesCall
    \/ MatchesAnyPatternCall
    \/ ClearCache
    \/ MatcherReturn
SpecMatcher == InitMatcher /\ [][NextMatcher]_vars

-----------------------------------------------------------------------------
(* The overlay: runs of processParserResults under one configuration.      *)

\* the selective hiding settings: lists of up to MaxConfigPatterns patterns
ConfigPatterns == {<<"*", "a">>, <<"b", "*">>, <<"*">>}
ConfigLists == SeqsUpTo(ConfigPatterns, MaxConfigPatterns)
Configs ==
    [excludeKeys : ConfigLists, selectiveEnabled : BOOLEAN, keyPatterns : ConfigLists]

\* the variables a parser located in a text of lines "key=value": up to
\* MaxVars of them, one a line, some with a blank value
Assignments == {<<"a">>, <<"b">>, <<"b", "a">>} \X {<<"v">>, <<" ">>}
RECURSIVE LocatedFrom(_, _, _, _)
LocatedFrom(as, n, lineStart, variables) ==
    IF n > Len(as) THEN variables
    ELSE LET startIndex == lineStart + Len(as[n][1]) + 1
             endIndex == startIndex + Len(as[n][2])
         IN  LocatedFrom(as, n + 1, endIndex + 1,
                         Append(variables,
                                [key |-> as[n][1], value |-> as[n][2],
                                 startIndex |-> startIndex, endIndex |-> endIndex,
                                 lineNumber |-> n - 1, isNested |-> FALSE,
                                 isCommented |-> FALSE]))
LocatedLists == {LocatedFrom(as, 1, 0, <<>>) : as \in SeqsUpTo(Assignments, MaxVars)}

\* an editor is active and the settings are read
InitOverlay ==
    /\ ParsersIdle
    /\ pc = "idle"
    /\ RegistryIdle
    /\ MatcherIdle
    /\ OptionsIdle
    /\ ComponentsIdle
    /\ config \in Configs
    /\ located = <<>>
    /\ decorations = <<>>

\* updateDecorations hands the parsed variables, when there are some, to
\* processParserResults
ProcessParserResultsCall ==
    /\ pc = "idle"
    /\ \E variables \in LocatedLists :
          /\ Len(variables) > 0
          /\ located' = variables
          /\ decorations' = ProcessParserResults(variables, config)
    /\ pc' = "returned"
    /\ UNCHANGED <<config, parserVars, registryVars, matcherVars, optionVars,
                   componentVars>>

\* this.activeEditor.setDecorations(this.decorationType, decorations)
SetDecorations ==
    /\ pc = "returned"
    /\ pc' = "idle"
    /\ located' = <<>>
    /\ decorations' = <<>>
    /\ UNCHANGED <<config, parserVars, registryVars, matcherVars, optionVars,
                   componentVars>>

NextOverlay == ProcessParserResultsCall \/ SetDecorations
SpecOverlay == InitOverlay /\ [][NextOverlay]_vars

-----------------------------------------------------------------------------
(* The debounced method: calls of the wrapper, the clock and the timer.    *)
(* A timer fires when it is due: the clock does not pass a due timer.      *)

DebounceArgs == {<<"a">>, <<"b">>}

InitDebounce ==
    /\ ParsersIdle
    /\ pc = "idle"
    /\ RegistryIdle
    /\ MatcherIdle
    /\ OverlayIdle
    /\ OptionsIdle
    /\ YamlLoopIdle
    /\ PasswordIdle
    /\ wait \in 0..MaxWait
    /\ now = 0
    /\ timeout = NoTimeout
    /\ trace = <<>>

\* descriptor.value(...args): the wrapper is called
DebouncedCall ==
    /\ Len(trace) < MaxEvents
    /\ \E args \in DebounceArgs :
          /\ timeout' = Rearm(timeout, now, wait, args)
          /\ trace' = Append(trace, [kind |-> "call", at |-> now, args |-> args])
    /\ UNCHANGED <<pc, wait, now, parserVars, registryVars, matcherVars, overlayVars,
                   optionVars, yamlVars, passwordVars>>

\* the callback of the timer: originalMethod.apply(this, args)
TimerFires ==
    /\ timeout.armed
    /\ timeout.due <= now
    /\ trace' = Append(trace, [kind |-> "run", at |-> now, args |-> timeout.args])
    /\ timeout' = NoTimeout
    /\ UNCHANGED <<pc, wait, now, parserVars, registryVars, matcherVars, overlayVars,
                   optionVars, yamlVars, passwordVars>>

\* a millisecond passes
Tick ==
    /\ now < MaxTime
    /\ timeout.armed => timeout.due > now
    /\ now' = now + 1
    /\ UNCHANGED <<pc, wait, timeout, trace, parserVars, registryVars, matcherVars,
                   overlayVars, optionVars, yamlVars, passwordVars>>

NextDebounce == DebouncedCall \/ TimerFires \/ Tick
SpecDebounce == InitDebounce /\ [][NextDebounce]_vars

-----------------------------------------------------------------------------
(* The password manager: verifyPassword, setPassword, reset and            *)
(* clearPassword calls under fixed settings.  verifyPassword and           *)
(* setPassword await showInputBox; the editor shows one input box at a     *)
(* time, so a call that opens one hides the box of the call that waits,    *)
(* which takes undefined for its input and returns false having changed    *)
(* nothing.                                                                *)

Passwords == {"secret", "other"}
Entries == Passwords \cup {Undefined}
SecuritySettings ==
    [passwordProtection : BOOLEAN, passwordTimeout : {0, 1},
     maxAttempts : {0, MaxAttemptsSetting}, rememberPassword : BOOLEAN]

\* N wrong entries were made with no correct one in between
LockedOut == security.maxAttempts > 0 /\ wrong >= security.maxAttempts

InitPassword ==
    /\ ParsersIdle
    /\ pc = "idle"
    /\ RegistryIdle
    /\ MatcherIdle
    /\ OverlayIdle
    /\ OptionsIdle
    /\ YamlLoopIdle
    /\ TimerIdle
    /\ hashedPassword = Undefined
    /\ password = Undefined
    /\ lastVerified = 0
    /\ attempts = 0
    /\ locked = FALSE
    /\ security \in SecuritySettings
    /\ waiting = NoCall
    /\ wrong = 0
    /\ outcome = NoOutcome

PasswordRest ==
    <<pc, parserVars, registryVars, matcherVars, overlayVars, optionVars, yamlVars>>

\* verifyPassword(), up to its return or to its await
VerifyPasswordCall ==
    LET enabled == IsPasswordProtectionEnabled(security, hashedPassword)
        returns(v) == [value |-> v, prompted |-> FALSE, lockedOut |-> LockedOut,
                       enabled |-> enabled]
    IN  /\ IF ~enabled
           THEN /\ outcome' = returns(TRUE)
                /\ UNCHANGED <<lastVerified, waiting>>
           ELSE IF locked /\ security.maxAttempts > 0
           THEN /\ outcome' = returns(FALSE)
                /\ UNCHANGED <<lastVerified, waiting>>
           ELSE IF /\ password # Undefined
                   /\ security.rememberPassword
                   /\ ~IsTimeoutExceeded(security, now, lastVerified)
           THEN /\ lastVerified' = now
                /\ outcome' = returns(TRUE)
                /\ UNCHANGED waiting
           ELSE /\ waiting' = [op |-> "verify", lockedOut |-> LockedOut,
                               enabled |-> enabled]
                /\ UNCHANGED <<lastVerified, outcome>>
        /\ UNCHANGED <<hashedPassword, password, attempts, locked, security, wrong>>
        /\ UNCHANGED <<PasswordRest, timerVars>>

\* the input box of verifyPassword resolves, and the call runs to its return
VerifyPasswordInput ==
    /\ waiting.op = "verify"
    /\ \E inputPassword \in Entries :
          LET isValid == /\ hashedPassword # Undefined
                         /\ CompareSync(inputPassword, hashedPassword)
              returns(v) == [value |-> v, prompted |-> TRUE,
                             lockedOut |-> waiting.lockedOut,
                             enabled |-> waiting.enabled]
          IN  IF inputPassword = Undefined
              THEN /\ outcome' = returns(FALSE)
                   /\ UNCHANGED <<password, lastVerified, attempts, locked, wrong>>
              ELSE IF isValid
              THEN /\ attempts' = 0
                   /\ lastVerified' = now
                   /\ password' = IF security.rememberPassword THEN inputPassword
                                   ELSE password
                   /\ wrong' = 0
                   /\ outcome' = returns(TRUE)
                   /\ UNCHANGED locked
              ELSE /\ attempts <= MaxAttemptsSetting
                   /\ attempts' = attempts + 1
                   /\ locked' = IF MaxAttemptsReached(attempts + 1, security.maxAttempts)
                                 THEN TRUE ELSE locked
                   /\ wrong' = wrong + 1
                   /\ outcome' = returns(FALSE)
                   /\ UNCHANGED <<password, lastVerified>>
    /\ waiting' = NoCall
    /\ UNCHANGED <<hashedPassword, security>>
    /\ UNCHANGED <<PasswordRest, timerVars>>

\* setPassword(), up to its first await
SetPasswordCall ==
    /\ waiting' = [op |-> "set", stage |-> "new"]
    /\ UNCHANGED <<hashedPassword, password, lastVerified, attempts, locked, security,
                   wrong, outcome>>
    /\ UNCHANGED <<PasswordRest, timerVars>>

\* its first input box resolves: return false, or on to the second await
SetPasswordNew ==
    /\ waiting.op = "set"
    /\ waiting.stage = "new"
    /\ \E newPassword \in Entries :
          waiting' = IF newPassword = Undefined THEN NoCall
                     ELSE [op |-> "set", stage |-> "confirm", newPassword |-> newPassword]
    /\ UNCHANGED <<hashedPassword, password, lastVerified, attempts, locked, security,
                   wrong, outcome>>
    /\ UNCHANGED <<PasswordRest, timerVars>>

\* its second input box resolves, and the call runs to its return
SetPasswordConfirm ==
    /\ waiting.op = "set"
    /\ waiting.stage = "confirm"
    /\ \E confirmPassword \in Entries :
          IF waiting.newPassword # confirmPassword
          THEN UNCHANGED <<hashedPassword, password, lastVerified, attempts, locked,
                           wrong>>
          ELSE /\ hashedPassword' = HashPassword(waiting.newPassword)
               /\ password' = IF security.rememberPassword THEN waiting.newPassword
                               ELSE password
               /\ lastVerified' = now
               /\ attempts' = 0
               /\ locked' = FALSE
               /\ wrong' = 0
    /\ waiting' = NoCall
    /\ UNCHANGED <<security, outcome>>
    /\ UNCHANGED <<PasswordRest, timerVars>>

\* reset()
ResetPassword ==
    /\ hashedPassword' = Undefined
    /\ password' = Undefined
    /\ lastVerified' = 0
    /\ attempts' = 0
    /\ locked' = FALSE
    /\ wrong' = 0
    /\ UNCHANGED <<security, waiting, outcome>>
    /\ UNCHANGED <<PasswordRest, timerVars>>

\* clearPassword()
ClearPassword ==
    /\ password' = Undefined
    /\ lastVerified' = 0
    /\ UNCHANGED <<hashedPassword, attempts, locked, security, waiting, wrong, outcome>>
    /\ UNCHANGED <<PasswordRest, timerVars>>

\* a second passes
SecondPasses ==
    /\ now < MaxSeconds * MS_PER_SECOND
    /\ now' = now + MS_PER_SECOND
    /\ UNCHANGED <<wait, timeout, trace, PasswordRest, passwordVars>>

NextPassword ==
    \/ VerifyPasswordCall
    \/ VerifyPasswordInput
    \/ SetPasswordCall
    \/ SetPasswordNew
    \/ SetPasswordConfirm
    \/ ResetPassword
    \/ ClearPassword
    \/ SecondPasses
SpecPassword == InitPassword /\ [][NextPassword]_vars

-----------------------------------------------------------------------------
(* The properties of the parsers and of the registry.                      *)

\* the variables a returned parse call gave back
Returned == IF pc = "returned" THEN {result[k] : k \in 1..Len(result)} ELSE {}

\* the number of dot-separated segments of a key
Segments(key) == Len(Split(key, "."))

\* C1: span round-trip.  Every variable v that parse(t) returns satisfies
\* t.slice(v.startIndex, v.endIndex) = v.value.  EnvParser breaks it: the
\* span starts right behind "=", the value behind the spaces that follow.
SpanRoundTrip ==
    \A v \in Returned : Slice(content, v.startIndex, v.endIndex) = v.value

\* C2: depth limiting.  With a limit maxNestedDepth >= 1, the JSON parser
\* returns no key of more dot-separated segments than maxNestedDepth.
\* JsonParser breaks it: it counts the root keys as depth 0.
DepthLimiting ==
    parser = "json" /\ options.maxNestedDepth >= 1
        => \A v \in Returned : Segments(v.key) <= options.maxNestedDepth

\* C3: isNested is true if and only if the key has more than one
\* dot-separated segment.  PropertiesParser breaks it: a key under a section
\* is "section.key", and isNested is always false.
IsNestedIffSegments ==
    \A v \in Returned : v.isNested <=> Segments(v.key) > 1

\* C4: no parser raises.  No parse call of any of the five parsers, on any
\* text and any options, ends in an exception.
NoParserRaises == pc # "threw"

\* C4 happens: JsonParser was given a text JSON.parse rejects, and returned
\* the pairs its fallback found.
MalformedJsonReturned ==
    /\ parser = "json"
    /\ pc = "returned"
    /\ ~JsonDecode(content).ok
    /\ result # <<>>

\* the parser types whose canParse takes the name, among the types in kinds
Takers(kinds, name) == {k \in kinds : CanParse(k, name)}

\* C5 as stated: for every file name, at most one of the five canParse
\* predicates is true.  EnvParser.canParse breaks it: it takes ".env.json",
\* which JsonParser takes too.
CanParseExclusive ==
    pc = "returned"
        => Cardinality(Takers({"env", "json", "yaml", "properties", "toml"}, fileName)) <= 1

\* C5 amended: for every file name, at most one of the canParse predicates
\* of json, yaml, properties and toml is true; env may take a name that one
\* of them takes.
CanParseExclusiveButEnv ==
    pc = "returned"
        => Cardinality(Takers({"json", "yaml", "properties", "toml"}, fileName)) <= 1

\* C5 happens: a name that EnvParser and one other parser take.
EnvSharesName ==
    /\ pc = "returned"
    /\ CanParse("env", fileName)
    /\ Cardinality(Takers({"json", "yaml", "properties", "toml"}, fileName)) = 1

\* C6: findParserForFile(name) returns the first type, in the order of the
\* last setEnabledParsers call, that names a registered parser whose
\* canParse(name) is true, undefined when there is none, and never a type
\* outside the enabled set.
FirstListedIsFound ==
    pc = "returned" =>
        LET listed == {k \in 1..Len(lastTypes) :
                          IsRegistered(lastTypes[k]) /\ CanParse(lastTypes[k], fileName)}
        IN  /\ found = IF listed = {} THEN "undefined" ELSE lastTypes[Min(listed)]
            /\ found # "undefined" => \E k \in 1..Len(enabledParsers) : enabledParsers[k] = found

\* C6 happens: two listed types take the name, and the one listed first is
\* returned although it is registered second.
ListedOrderDecides ==
    /\ pc = "returned"
    /\ lastTypes = <<"json", "env">>
    /\ CanParse("env", fileName)
    /\ found = "json"

\* C7: after construction and after every setEnabledParsers(types), the
\* enabled set is exactly the identifiers of types that name a registered
\* parser.
EnabledAreListedRegistered ==
    {enabledParsers[k] : k \in 1..Len(enabledParsers)}
        = {lastTypes[k] : k \in {j \in 1..Len(lastTypes) : IsRegistered(lastTypes[j])}}

\* C7 happens: an unknown identifier was dropped and the types enabled
\* before were removed.
UnknownTypeDropped ==
    /\ lastTypes = <<"xml", "env">>
    /\ enabledParsers = <<"env">>

\* C8: every parse call on a shared PropertiesParser returns what a fresh
\* instance with the same options returns for the content.
SectionScopedToCall ==
    parser = "properties" /\ pc = "returned"
        => result = PropertiesParse(content, options, <<>>).variables

\* C8 happens: the instance came to the call with the section of an earlier
\* text, and returned variables for a text without a section.
SectionLeftBehind ==
    /\ parser = "properties"
    /\ pc = "returned"
    /\ entry = <<"s">>
    /\ currentSection = <<>>
    /\ result # <<>>

\* C9: every parse call on a shared EnvParser returns what a fresh EnvParser
\* with the same options returns for the content.
EnvCallsIndependent ==
    parser = "env" /\ pc = "returned"
        => result = EnvParse(content, options, FreshLastIndex).variables

\* C9 happens: the second call on one EnvParser returned variables.
EnvSecondCall ==
    /\ parser = "env"
    /\ pc = "returned"
    /\ calls = 2
    /\ result # <<>>

\* C10: PropertiesParser.canParse(name) is true if and only if the
\* lower-cased name ends with ".properties", ".ini" or ".conf".
\* canParse breaks it: it takes the name "ini", which has no extension.
PropCanParseExact ==
    pc = "returned" =>
        (PropCanParse(fileName) <=>
            \E w \in {WordProperties, WordIni, WordConf} :
                EndsWith(ToLowerCase(fileName), <<".">> \o w))

\* the physical line of c that starts at offset p
LineAt(c, p) ==
    LET e == IndexOf(c, <<"\n">>, p)
    IN  Substring(c, p, IF e = -1 THEN Len(c) ELSE e)

\* the offsets where a physical line of c starts
LineStarts(c) == {p \in 0..Len(c) : p = 0 \/ c[p] = "\n"}

\* a line that is an assignment with nothing but whitespace behind its "="
EnvBlankLine ==
    <<Bol(0), Star(AnyS),
      Opt(Lit(<<"e","x","p","o","r","t">>) \o <<Plus(AnyS)>>),
      Open(1), IdStart, Star(IdChar), Close(1),
      Star(AnyS), Cls({"="}), Star(AnyS), Eol(0)>>

\* C11: EnvParser drops empty values.  No returned variable has a value that
\* is blank after trimming, and an assignment whose text between "=" and the
\* end of its physical line is blank gives no variable for its key, whatever
\* lines follow.  EnvParser breaks it: the \s* behind "=" runs over the line
\* end, and the next line becomes the value.
EmptyEnvValuesDropped ==
    parser = "env" =>
        /\ \A v \in Returned : Trim(v.value) # <<>>
        /\ \A p \in LineStarts(content) :
              LET line == LineAt(content, p)
                  m == Match(line, EnvBlankLine, 0, NoCaps)
              IN  m.ok =>
                    \A v \in Returned :
                        ~(/\ v.key = Group(line, m, 1)
                          /\ v.startIndex = p + IndexOf(line, <<"=">>, 0) + 1)

\* the string-valued members of a decoded value that are reached through
\* objects alone, as pairs of the dotted key path and the text
RECURSIVE ObjectStrings(_, _)
ObjectStrings(v, keyPrefix) ==
    IF v.k # "obj" THEN {}
    ELSE UNION {
            LET it == v.items[n]
                fullKey == IF keyPrefix # <<>> THEN keyPrefix \o <<".">> \o it.key
                           ELSE it.key
            IN  IF it.val.k = "str" THEN {<<fullKey, it.val.s>>}
                ELSE ObjectStrings(it.val, fullKey)
            : n \in 1..Len(v.items)}

\* C12: on a document that decodes, JsonParser.parse reports only
\* string-valued members reached from the root through objects alone; nothing
\* inside an array is reported.  JsonParser breaks it: an array is an object
\* to typeof, so extractVariables walks into it under the keys "0", "1", ...
OnlyObjectStringsReported ==
    parser = "json" /\ pc = "returned" /\ JsonDecode(content).ok =>
        \A v \in Returned :
            <<v.key, v.value>> \in ObjectStrings(JsonDecode(content).v, <<>>)

\* a quoted key, ":" and a quoted string that start at offset p of c: the
\* key runs to the next quote and is not empty, whitespace may stand on both
\* sides of the colon, and the string runs to the next quote
PairAt(c, p) ==
    LET q == IndexOf(c, <<"\"">>, p + 1)
        a == q + 1 + SpaceFrom(c, q + 2)
        b == a + 1 + SpaceFrom(c, a + 2)
        e == IndexOf(c, <<"\"">>, b + 1)
    IN  IF /\ CharAt(c, p) = "\""
           /\ q > p + 1
           /\ CharAt(c, a) = ":"
           /\ CharAt(c, b) = "\""
           /\ e # -1
        THEN [ok |-> TRUE, key |-> Substring(c, p + 1, q),
              value |-> Substring(c, b + 1, e), start |-> b + 1, end |-> e + 1]
        ELSE [ok |-> FALSE, key |-> <<>>, value |-> <<>>, start |-> -1, end |-> -1]

\* the successive pairs of c from offset from on, in text order: the search
\* for the next pair starts where the last one ended
RECURSIVE QuotedPairs(_, _)
QuotedPairs(c, from) ==
    IF from >= Len(c) THEN <<>>
    ELSE LET m == PairAt(c, from)
         IN  IF m.ok THEN <<m>> \o QuotedPairs(c, m.end)
             ELSE QuotedPairs(c, from + 1)

\* C13: when decoding fails, JsonParser.parse returns exactly one variable
\* per successive quoted pair of the raw text, in text order, each with the
\* matched key alone as key and isNested = FALSE, whatever maxNestedDepth
\* is; the result is not empty when the text holds such a pair.
FallbackReportsPairs ==
    parser = "json" /\ pc = "returned" /\ ~JsonDecode(content).ok =>
        LET pairs == QuotedPairs(content, 0)
        IN  /\ Len(result) = Len(pairs)
            /\ \A n \in 1..Len(pairs) :
                  /\ result[n].key = pairs[n].key
                  /\ result[n].value = pairs[n].value
                  /\ result[n].startIndex = pairs[n].start
                  /\ result[n].isNested = FALSE

\* C13 happens: a text that does not decode held two pairs under different
\* keys, the depth limit was 0, and both pairs were returned.
FallbackReturnedTwoPairs ==
    /\ parser = "json"
    /\ pc = "returned"
    /\ ~JsonDecode(content).ok
    /\ options.maxNestedDepth = 0
    /\ Len(result) = 2
    /\ result[1].key # result[2].key

\* the glob dialect: p matches k, compared without regard to case and with
\* every character of the body taken as it is written
GlobMatches(p, k) ==
    LET star == <<"*">>
        lp == ToLowerCase(p)
        lk == ToLowerCase(k)
    IN  IF StartsWith(p, star) /\ EndsWith(p, star)
        THEN Includes(lk, IF Len(p) >= 2 THEN SubSeq(lp, 2, Len(p) - 1) ELSE <<>>)
        ELSE IF StartsWith(p, star) THEN EndsWith(lk, SubSeq(lp, 2, Len(p)))
        ELSE IF EndsWith(p, star) THEN StartsWith(lk, SubSeq(lp, 1, Len(p) - 1))
        ELSE lk = lp

\* C14: patternToRegex implements the four-shape glob dialect.  For every
\* pattern p and key k, patternToRegex(p) compiles and its test of k is true
\* if and only if p matches k in the dialect; "*" matches every key.
GlobDialect ==
    op = "patternToRegex" =>
        /\ pc = "returned"
        /\ matched = GlobMatches(patterns[1], testedKey)
        /\ patterns[1] = <<"*">> => matched

\* C14 happens: a pattern with a star and a dot in its body matched a key
\* that holds the body in the other case.
GlobBodyTakenLiterally ==
    /\ op = "patternToRegex"
    /\ patterns = << <<"*", ".", "B">> >>
    /\ testedKey = <<".", "b">>
    /\ matched

\* the list in the opposite order
Reverse(ls) == [n \in 1..Len(ls) |-> ls[Len(ls) + 1 - n]]

\* some entry of the list is a pattern that matches k in the dialect
SomeGlobMatches(pats, k) ==
    \E n \in 1..Len(pats) : IsString(pats[n]) /\ GlobMatches(pats[n], k)

\* C15: matchesAnyPattern(key, patterns) is true if and only if at least one
\* pattern of the list matches the key; it is false for the empty list, and
\* the list in the opposite order gives the same answer.
AnyPatternDecides ==
    op = "matchesAnyPattern" /\ pc = "returned" =>
        /\ matched = SomeGlobMatches(patterns, testedKey)
        /\ patterns = <<>> => ~matched
        /\ matched = MatchesAnyPattern(testedKey, Reverse(patterns)).value

\* C15 happens: the first pattern of a list did not match the key and the
\* second one did.
SecondPatternMatched ==
    /\ op = "matchesAnyPattern"
    /\ pc = "returned"
    /\ patterns = << <<".">>, <<"*", "a">> >>
    /\ testedKey = <<"b", "a">>
    /\ matched

\* C16: a pattern that cannot be turned into a regex never aborts matching.
\* matchesAnyPattern and PatternMatcher.matches never throw; they take the
\* failing pattern as a non-match and answer as the list without it does.
FailingPatternSkipped ==
    op \in {"matchesAnyPattern", "matches"} =>
        /\ pc # "threw"
        /\ pc = "returned" =>
              matched = \E n \in 1..Len(patterns) :
                            /\ ~PatternToRegex(patterns[n]).threw
                            /\ GlobMatches(patterns[n], testedKey)

\* C16 happens: matchesAnyPattern met an entry that is no string, for which
\* patternToRegex throws, and returned true for the pattern behind it.
LaterPatternStillMatched ==
    /\ op = "matchesAnyPattern"
    /\ pc = "returned"
    /\ patterns = <<NotAString, <<"*", "a">> >>
    /\ testedKey = <<"b", "a">>
    /\ matched

\* C17: the caching matcher is observationally equal to the uncached one.
\* After any sequence of matches and clearCache calls on one PatternMatcher,
\* matches(key, patterns) returns what matchesAnyPattern(key, patterns)
\* returns, and every cached regex is patternToRegex of the pattern it is
\* cached under.
CachedEqualsUncached ==
    /\ \A g \in DOMAIN cache :
          /\ ~PatternToRegex(g).threw
          /\ cache[g] = PatternToRegex(g).regex
    /\ op = "matches" =>
          /\ pc = "returned"
          /\ matched = MatchesAnyPattern(testedKey, patterns).value

\* C17 happens: a matches call returned true for a pattern while the cache
\* held the regex of another pattern, left by an earlier call.
MatchedWithFilledCache ==
    /\ op = "matches"
    /\ pc = "returned"
    /\ matched
    /\ patterns = << <<"*", "a">> >>
    /\ <<"B", "*">> \in DOMAIN cache

\* the calls of the log that gave field f to the parser of type t
Supplying(t, f) ==
    {n \in 1..Len(log) : log[n].type = t /\ f \in DOMAIN log[n].options}

\* C18: setOptions merges per field.  After any sequence of setOptions and
\* updateParserOptions calls, each field of each parser's options is the
\* value of the most recent call that gave that field to that parser, or
\* the default the constructor set when no call gave it; setEnabledParsers
\* calls in between change nothing.
OptionsMergePerField ==
    \A t \in RegisteredSet : \A f \in {"maxNestedDepth", "includeCommented"} :
        parserOptions[t][f] =
            IF Supplying(t, f) = {} THEN DEFAULT_PARSER_OPTIONS[f]
            ELSE log[Max(Supplying(t, f))].options[f]

\* C18 happens: the json parser was given a depth limit and then the other
\* field alone, in between the enabled set was reduced to env, and the depth
\* limit is still the one given.
EarlierFieldKept ==
    /\ log = << [type |-> "json", options |-> [maxNestedDepth |-> 5]],
                [type |-> "json", options |-> [includeCommented |-> FALSE]] >>
    /\ enabledParsers = <<"env">>
    /\ parserOptions["json"] = [maxNestedDepth |-> 5, includeCommented |-> FALSE]

\* where the value of the key-value line of c that starts at offset p
\* stands: the offset S of the first character behind "=" and the whitespace
\* that follows it, found through the key the line's grammar reads; and what
\* the value's delimiters, if any, make of it
TomlValueAt(c, p) ==
    LET line == LineAt(c, p)
        trimmed == Trim(line)
        prefix == IF StartsWith(trimmed, <<"#">>) THEN 1 + SpaceFrom(trimmed, 2) ELSE 0
        lineContent == From(trimmed, prefix)
        m == Exec(lineContent, TOML_KEY_VALUE_REGEX, 0)
        raw == Group(lineContent, m, 2)
        S == p + LeadingSpace(line) + prefix + m.caps[2][1]
        q1 == IF StartsWith(raw, <<"\"">>) THEN <<"\"">> ELSE <<"'">>
        q3 == q1 \o q1 \o q1
        opens1 == (StartsWith(raw, <<"\"">>) \/ StartsWith(raw, <<"'">>)) /\ ~StartsWith(raw, q3)
        opens3 == StartsWith(raw, <<"\"", "\"", "\"">>) \/ StartsWith(raw, <<"'", "'", "'">>)
    IN  IF opens3 /\ IndexOf(raw, q3, 3) # -1
        THEN [quoted |-> TRUE, start |-> S + 3, end |-> S + IndexOf(raw, q3, 3)]
        ELSE IF opens1 /\ IndexOf(raw, q1, 1) # -1
        THEN [quoted |-> TRUE, start |-> S + 1, end |-> S + IndexOf(raw, q1, 1)]
        ELSE [quoted |-> FALSE, start |-> S, end |-> -1]

\* C19: TOML offsets account for the delimiter width.  For a value that
\* opens with a 1-character or a 3-character delimiter closed on the line,
\* startIndex is the offset of the first character behind the opening
\* delimiter and endIndex the offset of the closing one; for an unquoted
\* scalar startIndex is the offset of its first character.  TomlParser breaks
\* it: it looks for the value behind the first "=" of the line, which may be
\* a character of a quoted key.
TomlOffsetsSkipDelimiter ==
    parser = "toml" =>
        \A v \in Returned :
            LET p == CHOOSE q \in LineStarts(content) :
                         GetLineNumber(content, q) = v.lineNumber
                at == TomlValueAt(content, p)
            IN  /\ v.startIndex = at.start
                /\ at.quoted => v.endIndex = at.end

\* a decoration was pushed for the span of the variable
Decorated(variable) ==
    \E d \in 1..Len(decorations) :
        decorations[d].range = <<variable.startIndex, variable.endIndex>>

\* C20: the hiding decision of the overlay.  A located variable with a
\* non-blank value gets a decoration if and only if its key matches no
\* excludeKeys pattern and selective hiding is disabled or its key matches a
\* keyPatterns pattern; an exclude match wins over an include match.
HidingDecision ==
    \A n \in 1..Len(located) :
        Trim(located[n].value) # <<>> =>
            (Decorated(located[n]) <=>
                /\ ~SomeGlobMatches(config.excludeKeys, located[n].key)
                /\ \/ ~config.selectiveEnabled
                   \/ SomeGlobMatches(config.keyPatterns, located[n].key))

\* C20 happens: with selective hiding on, a key that matches an exclude
\* pattern and a key pattern got no decoration, and the key behind it, which
\* matches the key pattern only, got one.
ExcludeWon ==
    /\ pc = "returned"
    /\ config = [excludeKeys |-> << <<"b", "*">> >>, selectiveEnabled |-> TRUE,
                 keyPatterns |-> << <<"*", "a">> >>]
    /\ Len(located) = 2
    /\ located[1].key = <<"b", "a">> /\ located[1].value = <<"v">>
    /\ located[2].key = <<"a">> /\ located[2].value = <<"v">>
    /\ ~Decorated(located[1])
    /\ Decorated(located[2])

\* the lines of the text in hand
ContentLines == Split(content, "\n")

\* lines[lineIndex - 1], the line the loop of YamlParser.parse went through last
YamlLastLine == ContentLines[yamlLineIndex]

\* a line the loop neither skips as blank nor as a document separator
YamlStructural(line) ==
    Trim(line) \notin {<<>>, <<"-","-","-">>, <<".",".",".">>}

\* a line whose first character behind its indentation is "#"
YamlComment(line) == StartsWith(TrimStart(line), <<"#">>)

\* C21: in the YAML parser the stack is popped before the comment check.
\* After the pass over a comment line that is skipped because
\* includeCommented is false, no entry of the stack has an indent of the
\* comment's indent or more.
PoppedBeforeCommentCheck ==
    (/\ pc = "looping"
     /\ yamlLineIndex > 0
     /\ ~options.includeCommented
     /\ YamlStructural(YamlLastLine)
     /\ YamlComment(YamlLastLine))
        => \A e \in 1..Len(yamlKeyStack) :
              yamlKeyStack[e].indent < GetIndentation(YamlLastLine)

\* the line is a comment that the parser skips under its options
YamlSkippedComment(line) == YamlComment(line) /\ ~options.includeCommented

\* the entries of the stack that lie less deep than the indentation
Shallower(stack, indent) ==
    SelectSeq(stack, LAMBDA e : e.indent < indent)

\* C21, amended: the comment check comes before the pop.  A pass over a blank
\* line, a separator or a skipped comment leaves the stack as it is; a pass
\* over any other line leaves the entries of a smaller indent than the
\* line's, with at most one entry of the line's indent pushed on them.
CommentCheckBeforePop ==
    [][(pc = "looping" /\ yamlLineIndex' = yamlLineIndex + 1) =>
          LET line == ContentLines[yamlLineIndex + 1]
              indent == GetIndentation(line)
              kept == Shallower(yamlKeyStack, indent)
          IN  IF ~YamlStructural(line) \/ YamlSkippedComment(line)
              THEN yamlKeyStack' = yamlKeyStack
              ELSE \/ yamlKeyStack' = kept
                   \/ /\ Len(yamlKeyStack') = Len(kept) + 1
                      /\ SubSeq(yamlKeyStack', 1, Len(kept)) = kept
                      /\ Last(yamlKeyStack').indent = indent]_vars

\* C21 happens: the loop went over a skipped comment line and the stack
\* still holds a parent of the comment's indent
CommentLeftStack ==
    /\ pc = "looping"
    /\ yamlLineIndex > 0
    /\ YamlStructural(YamlLastLine)
    /\ YamlSkippedComment(YamlLastLine)
    /\ Len(yamlKeyStack) > 0
    /\ Last(yamlKeyStack).indent >= GetIndentation(YamlLastLine)

\* keyStack as the loop of YamlParser.parse finds it at line i of the text
YamlStackBefore(i) ==
    YamlLines(content, SubSeq(ContentLines, 1, i - 1), 1, 0, <<>>, <<>>, options).keyStack

\* the open ancestors of line i: the entries its pass does not pop
OpenAncestors(i) == PopStack(YamlStackBefore(i), GetIndentation(ContentLines[i]))

\* line i is a line of the document's structure: not blank, not a separator
\* and not a comment
YamlBlockLine(i) ==
    YamlStructural(ContentLines[i]) /\ ~YamlComment(ContentLines[i])

\* line i opens a nested block: a key with no value
YamlParentLine(i) ==
    /\ YamlBlockLine(i)
    /\ YamlParseLine(ContentLines[i]).ok
    /\ ~YamlParseLine(ContentLines[i]).hasValue

\* line j lies in the block that line i opens: it is indented deeper than
\* line i, and so is every line of the structure between them
NestedUnder(j, i) ==
    /\ i < j
    /\ YamlBlockLine(j)
    /\ \A m \in (i + 1)..j :
          YamlBlockLine(m) =>
              GetIndentation(ContentLines[m]) > GetIndentation(ContentLines[i])

\* a variable of the result lies on line i
ReportedLine(i) == \E n \in 1..Len(result) : result[n].lineNumber = i - 1

\* the pass over line i pushed it as a parent
PushedLine(i) ==
    Len(YamlStackBefore(i + 1)) = Len(OpenAncestors(i)) + 1

\* C22: YAML depth rejection.  A line is reported or pushed as a parent only
\* if the number of its open ancestors plus one is at most maxNestedDepth,
\* and no value nested under a parent rejected for depth is reported, under
\* whatever key.
DepthRejection ==
    pc = "returned" =>
        /\ \A i \in 1..Len(ContentLines) :
              (ReportedLine(i) \/ PushedLine(i))
                  => Len(OpenAncestors(i)) + 1 <= options.maxNestedDepth
        /\ \A i \in 1..Len(ContentLines) :
              (YamlParentLine(i) /\ YamlTooDeep(OpenAncestors(i), options))
                  => \A j \in 1..Len(ContentLines) :
                        NestedUnder(j, i) => ~ReportedLine(j)

\* the name of the header a line is: its text is "[" name "]" or
\* "[[" name "]]" and the name is not empty and holds no "]"; <<>> otherwise
HeaderName(line) ==
    LET t == Trim(line)
        one == Slice(t, 1, -1)
        two == Slice(t, 2, -2)
    IN  IF StartsWith(t, <<"[">>) /\ EndsWith(t, <<"]">>) /\ Len(one) > 0
           /\ ~Includes(one, <<"]">>)
        THEN one
        ELSE IF StartsWith(t, <<"[","[">>) /\ EndsWith(t, <<"]","]">>) /\ Len(two) > 0
                /\ ~Includes(two, <<"]">>)
        THEN two
        ELSE <<>>

\* the name of the last header above line i, <<>> when there is none
RECURSIVE SectionAbove(_)
SectionAbove(i) ==
    IF i <= 1 THEN <<>>
    ELSE IF HeaderName(ContentLines[i - 1]) # <<>> THEN HeaderName(ContentLines[i - 1])
    ELSE SectionAbove(i - 1)

\* the key a line of a TOML file gives its value, the comment marker and the
\* quotes of the key put aside
TomlOwnKey(line) ==
    LET t == Trim(line)
        body == IF StartsWith(t, <<"#">>) THEN TrimStart(From(t, 1)) ELSE t
    IN  TomlParseKeyValue(body, line, 0).key

\* C23: TOML section tracking.  A variable behind a header [s] or [[s]] and
\* before the next header has the key s.k, k its own key; a variable above
\* the first header has its own key; a commented-out header changes nothing.
SectionPrefixes ==
    (parser = "toml" /\ pc = "returned") =>
        \A n \in 1..Len(result) :
            LET i == result[n].lineNumber + 1
                s == SectionAbove(i)
                k == TomlOwnKey(ContentLines[i])
            IN  result[n].key = IF s = <<>> THEN k ELSE s \o <<".">> \o k

\* C23 happens: a pair behind an array-of-tables header and a commented-out
\* header was reported under the name of the array of tables
ArrayTablePrefixed ==
    /\ parser = "toml"
    /\ pc = "returned"
    /\ options.includeCommented
    /\ content = JoinWith(<< <<"[","[","t","]","]">>, <<"#","[","u","]">>,
                             <<"k","=","v">> >>, "\n")
    /\ Len(result) = 1
    /\ result[1].key = <<"t", ".", "k">>

\* the calls of the trace before event p
CallsBefore(p) == {q \in 1..(p - 1) : trace[q].kind = "call"}

\* C24: Debounce(wait).  Every run of the method comes wait ms after the
\* most recent call, with the arguments of that call and with no other event
\* between the two; a call that nothing followed for wait ms has run by
\* then, so a burst runs once; and a call itself runs nothing.
DebounceRunsOnce ==
    /\ \A p \in 1..Len(trace) :
          trace[p].kind = "run" =>
              /\ p > 1
              /\ trace[p - 1].kind = "call"
              /\ trace[p].at = trace[p - 1].at + wait
              /\ trace[p].args = trace[p - 1].args
    /\ (Len(trace) > 0 /\ Last(trace).kind = "call") =>
          /\ now <= Last(trace).at + wait
          /\ timeout = [armed |-> TRUE, due |-> Last(trace).at + wait,
                        args |-> Last(trace).args]
    /\ (Len(trace) = 0 \/ Last(trace).kind = "run") => ~timeout.armed

\* C24 happens: a burst of three calls less than wait apart, of different
\* arguments, ran once, wait ms after the last call and with its arguments
BurstRanOnce ==
    /\ wait = MaxWait
    /\ Len(trace) = 4
    /\ trace[1].kind = "call" /\ trace[2].kind = "call" /\ trace[3].kind = "call"
    /\ trace[1].at < trace[2].at /\ trace[2].at < trace[3].at
    /\ trace[1].args # trace[3].args
    /\ trace[4] = [kind |-> "run", at |-> trace[3].at + wait, args |-> trace[3].args]

\* C25: password lockout.  With maxAttempts = N > 0: a verifyPassword call
\* made with protection enabled, a password set and N wrong entries since
\* the last correct entry, reset() or successful setPassword() returned false
\* and did not prompt; with a password set the manager is locked when N such
\* entries were made and is not locked when fewer were.
PasswordLockout ==
    security.maxAttempts > 0 =>
        /\ (outcome.lockedOut /\ outcome.enabled)
              => (~outcome.value /\ ~outcome.prompted)
        /\ hashedPassword # Undefined => (locked <=> LockedOut)

\* C25 happens: N wrong entries were made, and the verifyPassword call
\* behind them returned false without a prompt
LockedOutRefused ==
    /\ security.passwordProtection
    /\ security.maxAttempts = MaxAttemptsSetting
    /\ hashedPassword # Undefined
    /\ wrong = MaxAttemptsSetting
    /\ locked
    /\ outcome = [value |-> FALSE, prompted |-> FALSE, lockedOut |-> TRUE,
                  enabled |-> TRUE]

\* what parse(content) returns on the instance in hand, as the last call
\* found it, had includeCommented been b
ParsedWith(b) ==
    LET opts == [options EXCEPT !.includeCommented = b]
    IN  CASE parser = "env" -> EnvParse(content, opts, lastIndex).variables
          [] parser = "json" -> JsonParse(content, opts).variables
          [] parser = "yaml" -> YamlParse(content, opts)
          [] parser = "properties" -> PropertiesParse(content, opts, entry).variables
          [] parser = "toml" -> TomlParse(content, opts)

Uncommented(variables) == SelectSeq(variables, LAMBDA v : ~v.isCommented)

\* C26: includeCommented is purely additive.  For every parser and every
\* text, the uncommented variables of the list returned under
\* includeCommented = true are the list returned under includeCommented =
\* false, which holds no commented variable.
CommentedIsAdditive ==
    pc = "returned" =>
        /\ result = ParsedWith(options.includeCommented)
        /\ Uncommented(ParsedWith(TRUE)) = ParsedWith(FALSE)
        /\ Uncommented(ParsedWith(FALSE)) = ParsedWith(FALSE)

\* the half-open ranges [startIndex, endIndex) of two variables share an offset
Overlap(v, w) ==
    /\ v.startIndex < w.endIndex
    /\ w.startIndex < v.endIndex

\* C27: the spans of one result never overlap.  For every parser and every
\* text, two distinct variables of a parse result have disjoint ranges.
SpansDisjoint ==
    pc = "returned" =>
        \A i, j \in 1..Len(result) : i # j => ~Overlap(result[i], result[j])

\* the characters of the text in hand that the range of a variable covers
Covered(v) == Slice(content, v.startIndex, v.endIndex)

\* C28: a span never crosses a line boundary.  For every parser and every
\* text, the characters between startIndex and endIndex of a returned
\* variable hold no newline.
SpanOnOneLine ==
    pc = "returned" =>
        \A n \in 1..Len(result) : ~Includes(Covered(result[n]), <<"\n">>)

\* C29: spans are well-formed and in bounds.  For every parser and every
\* text, 0 <= startIndex <= endIndex <= the length of the text.
SpansInBounds ==
    pc = "returned" =>
        \A n \in 1..Len(result) :
            /\ 0 <= result[n].startIndex
            /\ result[n].startIndex <= result[n].endIndex
            /\ result[n].endIndex <= Len(content)

\* a key of the line grammar of the YAML parser, which may itself hold a "."
IsLineKey(t) == Exec(t, <<Bol(0), KeyStart, Star(KeyChar), Eol(0)>>, 0).ok
\* the key of a stack entry is the key of the entry below it, a "." and
\* one line key
ExtendsBy(upper, lower) ==
    /\ StartsWith(upper, lower \o <<".">>)
    /\ IsLineKey(From(upper, Len(lower) + 1))

\* C30: the key stack of YamlParser.parse.  At every point of a parse call
\* the indents of the entries strictly increase from bottom to top and each
\* key extends the key below it by "." and one line key; the stack is empty
\* when a call starts.
KeyStackOrdered ==
    pc = "looping" =>
        /\ yamlLineIndex = 0 => yamlKeyStack = <<>>
        /\ \A e \in 1..Len(yamlKeyStack) :
              IF e = 1
              THEN IsLineKey(yamlKeyStack[e].key)
              ELSE /\ yamlKeyStack[e - 1].indent < yamlKeyStack[e].indent
                   /\ ExtendsBy(yamlKeyStack[e].key, yamlKeyStack[e - 1].key)

\* C30 happens: two parents are open, the second nested in the first
TwoParentsOpen ==
    /\ pc = "looping"
    /\ Len(yamlKeyStack) = 2
    /\ yamlKeyStack[1].indent < yamlKeyStack[2].indent
    /\ yamlKeyStack[2].key = yamlKeyStack[1].key \o <<".">> \o <<"l", "2">>

=============================================================================
